---------------------------- MODULE Spec2Model ----------------------------
(***************************************************************************)
(* A model of the decision pipeline of tervyx-evidence: the plausibility   *)
(* gate (PhiPrecheck), the safety gate (KPrecheck), the relevance matcher, *)
(* the extraction retry loop and the per-entry pipeline of                 *)
(* tools/generate_evidence.py.                                             *)
(*                                                                         *)
(* Strings are sequences of atoms (a character, or a word that the code    *)
(* only ever handles as a unit); formatting with an f-string is            *)
(* concatenation of fragments, so a formatted reason is never equal to the *)
(* text it embeds.                                                         *)
(***************************************************************************)
EXTENDS Integers, Sequences, FiniteSets, TLC

VARIABLES
    entry,          \* EntryDefinition: intervention_type, product, outcome
    phi_rules,      \* PhiPrecheck.hard_exclusions (ordered list from the YAML)
    phi_pc,         \* position in PhiPrecheck.check_entry
    phi_i,          \* index of the next exclusion of the for loop
    phi_evaluated,  \* indices of the exclusions the loop has evaluated, in order
    phi_result,     \* PhiPrecheckResult returned
    k_config,       \* the K YAML: high_risk_substances, regulatory_warnings, interactions
    k_high_risk,    \* KPrecheck.high_risk_substances (dict, insertion ordered)
    k_regulatory,   \* KPrecheck.regulatory_warnings (dict, insertion ordered)
    k_pc,           \* position in KPrecheck.__init__ / check_entry
    k_i,            \* index of the next item of the current for loop
    k_verdict,      \* local verdict of check_entry
    k_reason,       \* local reason of check_entry
    k_signals,      \* local safety_signals of check_entry
    k_references,   \* local references of check_entry
    k_evaluated,    \* <<category, index, matched>> of every rule the scan has tested
    k_result,       \* KPrecheckResult returned
    m_threshold,    \* RelevanceMatcher.relevance_threshold, in units of 1/ScoreUnit
    m_papers,       \* the candidate list given to match_papers
    m_pc,           \* position in RelevanceMatcher.match_papers
    m_i,            \* index of the next paper of the for loop
    m_results,      \* the local list results of match_papers
    x_model_name,   \* GeminiExtractor.model_name
    x_temperature,  \* GeminiExtractor.temperature, in tenths
    x_max_retries,  \* GeminiExtractor.max_retries
    x_pc,           \* position in GeminiExtractor.extract_from_abstract
    x_attempt,      \* the loop variable attempt
    x_log,          \* the model calls and sleeps of the call, in order
    x_result,       \* ExtractionResult returned
    pl_pc,          \* position in generate_evidence.main
    pl_threshold,   \* args.relevance_threshold
    pl_stages,      \* the stages main has started, in order
    pl_records,     \* the local list records of main
    pl_validation,  \* what validate_dataframe(df) gave main
    pl_files,       \* the files saved in the entry's output directory, in order
    pl_exit,        \* the value main returns
    v_record,       \* the record given to EvidenceValidator.validate_record
    v_pc,           \* position in validate_record
    v_checks,       \* the checks validate_record has run, in order
    v_errors,       \* the local list errors of validate_record
    v_warnings,     \* the warnings validate_record has logged
    v_result,       \* what validate_record returned, or that it raised
    c_client,       \* the client object: its class and its rate_limit
    c_network,      \* the servers: the times a request may take, the length
                    \* of the short id lists a search may find
    c_now,          \* time.time(), in ticks
    c_last_request_time,  \* the client's last_request_time, in ticks
    c_requests,     \* the network requests the client has issued, in order
    c_pc,           \* position in the client's method
    c_op,           \* the public method the caller invoked
    c_calls,        \* number of public methods invoked so far
    c_pmids,        \* the argument pmids of fetch_details
    c_i,            \* the loop variable i of fetch_details
    c_articles,     \* the local list articles of fetch_details
    c_result,       \* what the public method returned
    r_pc,           \* position in run_30_sample_extraction.main
    r_extractions,  \* the local list extractions of that main
    r_studies,      \* the number of rows of abstracts_df
    r_i,            \* the row the loop of Step 4 is at, from 0
    r_called        \* the rows extract_from_abstract has been called for

gateVars == <<entry, phi_rules, phi_pc, phi_i, phi_evaluated, phi_result,
              k_config, k_high_risk, k_regulatory, k_pc, k_i, k_verdict,
              k_reason, k_signals, k_references, k_evaluated, k_result>>

mVars == <<m_threshold, m_papers, m_pc, m_i, m_results>>

xVars == <<x_model_name, x_temperature, x_max_retries, x_pc, x_attempt, x_log, x_result>>

plVars == <<pl_pc, pl_threshold, pl_stages, pl_records, pl_validation, pl_files,
           pl_exit>>

cVars == <<c_client, c_network, c_now, c_last_request_time, c_requests, c_pc, c_op,
          c_calls, c_pmids, c_i, c_articles, c_result>>

rVars == <<r_pc, r_extractions, r_studies, r_i, r_called>>

vars == <<gateVars, mVars, xVars, plVars, v_record, v_pc, v_checks, v_errors,
          v_warnings, v_result, cVars, rVars>>

-----------------------------------------------------------------------------
(* Bounds of the model *)

MaxPhiRules == 2
MaxKRules == 3
MaxPapers == 3
MaxRetries == 3
MaxDeviations == 2
MaxCalls == 2
MaxStudies == 2

-----------------------------------------------------------------------------
(* Strings *)

Range(s) == {s[i] : i \in 1..Len(s)}

\* str.lower() on one atom
LowerAtom(c) ==
    CASE c = "E" -> "e"
      [] c = "K" -> "k"
      [] c = "D" -> "d"
      [] c = "C" -> "c"
      [] c = "Magnesium" -> "magnesium"
      [] c = "Sleep" -> "sleep"
      [] c = "RCT" -> "rct"
      [] OTHER -> c

\* str.lower()
Lower(s) == [i \in 1..Len(s) |-> LowerAtom(s[i])]

\* str.replace(old, new) for one-atom old and new
Replace(s, old, new) == [i \in 1..Len(s) |-> IF s[i] = old THEN new ELSE s[i]]

\* Python's `sub in text` on strings
Contains(text, sub) ==
    \E off \in 0..(Len(text) - Len(sub)) :
        \A k \in 1..Len(sub) : text[off + k] = sub[k]

NoResult == [verdict |-> "none"]


ReasonText == <<"r1", "r2", "r3", "r4", "r5", "r6">>

-----------------------------------------------------------------------------
(* PhiPrecheck: src/src/gates_precheck/phi_precheck.py *)

\* A regular expression of the configuration: a literal (searched anywhere in
\* the text), or a pattern re.compile rejects.
Pattern(valid, s) == [valid |-> valid, s |-> s]

InterventionPatterns ==
    {Pattern(TRUE, <<"d", " ", "e">>), Pattern(TRUE, <<>>), Pattern(FALSE, <<"(">>)}

OutcomePatterns ==
    {Pattern(TRUE, <<"c">>), Pattern(TRUE, <<>>), Pattern(FALSE, <<"(">>)}

\* One hard_exclusions item without its reason.
PhiBaseRules ==
    [intervention_pattern : InterventionPatterns,
     outcome_pattern : OutcomePatterns,
     action : {"reject", "warn"}]

PhiRule(base, i) ==
    [intervention_pattern |-> base.intervention_pattern,
     outcome_pattern |-> base.outcome_pattern,
     action |-> base.action,
     reason |-> ReasonText[i]]

\* The ordered rule lists of at most n rules; the i-th rule carries the i-th
\* reason text, so that a reason identifies its rule.
PhiRuleLists(n) ==
    UNION {{[i \in 1..len |-> PhiRule(f[i], i)] : f \in [1..len -> PhiBaseRules]} :
           len \in 0..n}

InterventionTypes == {<<"D">>, <<"s">>}
Products == {<<"E", "-", "K">>, <<"e">>, <<"m">>}
Outcomes == {<<"C">>, <<"s">>}

Entries == [intervention_type : InterventionTypes, product : Products, outcome : Outcomes]

\* re.search(pattern, text, re.IGNORECASE), False on re.error
MatchesPattern(text, pattern) ==
    pattern.valid /\ Contains(Lower(text), Lower(pattern.s))

\* f"{intervention_type} {product}"
SearchStr(e) == e.intervention_type \o <<" ">> \o e.product

\* the two nested ifs on the patterns
PhiRuleMatches(rule, e) ==
    /\ MatchesPattern(SearchStr(e), rule.intervention_pattern)
    /\ MatchesPattern(e.outcome, rule.outcome_pattern)

\* the if/elif on the action of a matching exclusion: the verdict returned,
\* or "continue" when the loop goes on
PhiOnMatchRejectOnly(action) ==
    IF action = "reject" THEN "reject" ELSE "continue"

PhiOnMatchWarnOnly(action) ==
    IF action = "warn" THEN "warn" ELSE "continue"

PhiOnMatch(action) ==
    IF action = "reject" THEN "reject"
    ELSE IF action = "warn" THEN "warn"
    ELSE "continue"

PhiPrecheckResult(verdict, reason, matched_rule) ==
    [verdict |-> verdict, reason |-> reason, matched_rule |-> matched_rule]

\* One iteration of `for exclusion in self.hard_exclusions`
PhiEvalRule ==
    /\ phi_pc = "loop"
    /\ phi_i <= Len(phi_rules)
    /\ LET exclusion == phi_rules[phi_i]
           returns == IF PhiRuleMatches(exclusion, entry)
                      THEN PhiOnMatch(exclusion.action)
                      ELSE "continue"
       IN  /\ phi_evaluated' = Append(phi_evaluated, phi_i)
           /\ IF returns = "continue"
              THEN /\ phi_i' = phi_i + 1
                   /\ UNCHANGED <<phi_pc, phi_result>>
              ELSE /\ phi_result' = PhiPrecheckResult(
                                        returns,
                                        <<exclusion.reason>>,
                                        <<exclusion.intervention_pattern,
                                          exclusion.outcome_pattern>>)
                   /\ phi_pc' = "done"
                   /\ UNCHANGED phi_i
    /\ UNCHANGED <<entry, phi_rules>>

\* The loop is exhausted: return PhiPrecheckResult(verdict="pass")
PhiNoMatch ==
    /\ phi_pc = "loop"
    /\ phi_i > Len(phi_rules)
    /\ phi_result' = PhiPrecheckResult("pass", <<>>, <<>>)
    /\ phi_pc' = "done"
    /\ UNCHANGED <<entry, phi_rules, phi_i, phi_evaluated>>

phiVars == <<phi_rules, phi_pc, phi_i, phi_evaluated, phi_result>>

\* A PhiPrecheck constructed from a configuration; pc "loop" when check_entry
\* has just been called, "idle" when the gate is not in use
PhiFresh(rules, pc) ==
    /\ phi_rules = rules
    /\ phi_pc = pc
    /\ phi_i = 1
    /\ phi_evaluated = <<>>
    /\ phi_result = NoResult

PhiIdle == PhiFresh(<<>>, "idle")

-----------------------------------------------------------------------------
(* KPrecheck: src/src/gates_precheck/k_precheck.py *)

KNames == {<<"e">>, <<"e", "_", "k">>}

RefText == <<"ref1", "ref2", "ref3", "ref4", "ref5", "ref6">>
WarningText == <<"w1", "w2", "w3", "w4", "w5", "w6">>

HighRiskItem(name, action, i) ==
    [name |-> name, action |-> action, reason |-> ReasonText[i], reference |-> RefText[i]]

\* a rule of the YAML that has no "action" key, and `info.get("action", default)`
NoAction == "(no action)"

ActionOrReject(info, default) == IF info.action = NoAction THEN "reject" ELSE info.action

ActionOr(info, default) == IF info.action = NoAction THEN default ELSE info.action

RegulatoryItem(substance, action, i) ==
    [substance |-> substance, action |-> action, agency |-> "FDA",
     warning |-> WarningText[i]]

InteractionItem(supplement, severity) ==
    [supplement |-> supplement, severity |-> severity, interacts_with |-> "warfarin"]

\* the lists of exactly len items of each category of the YAML
HighRiskLists(len) ==
    {[i \in 1..len |-> HighRiskItem(f[i].name, f[i].action, i)] :
        f \in [1..len -> [name : KNames, action : {"reject", "flag", "warn"}]]}

RegulatoryLists(len) ==
    {[i \in 1..len |-> RegulatoryItem(f[i].substance, f[i].action, i)] :
        f \in [1..len -> [substance : KNames, action : {"reject", "flag", NoAction}]]}

InteractionLists(len) ==
    {[i \in 1..len |-> InteractionItem(f[i].supplement, f[i].severity)] :
        f \in [1..len -> [supplement : KNames, severity : {"major", "moderate"}]]}

\* the configurations of at most n rules in all
KConfigs(n) ==
    UNION {[high_risk_substances : HighRiskLists(a),
            regulatory_warnings : RegulatoryLists(b),
            interactions : InteractionLists(c)] :
           <<a, b, c>> \in {t \in (0..n) \X (0..n) \X (0..n) : t[1] + t[2] + t[3] <= n}}

EmptyKConfig ==
    [high_risk_substances |-> <<>>, regulatory_warnings |-> <<>>, interactions |-> <<>>]

\* d[key] = value on a dict kept as its items in insertion order: a key already
\* present keeps its position and takes the new value
DictPut(d, key, value) ==
    IF \E j \in 1..Len(d) : d[j].key = key
    THEN [j \in 1..Len(d) |->
             IF d[j].key = key THEN [key |-> key, value |-> value] ELSE d[j]]
    ELSE Append(d, [key |-> key, value |-> value])

\* {item["name"]: item for item in items}
RECURSIVE HighRiskDict(_, _)
HighRiskDict(items, d) ==
    IF items = <<>> THEN d
    ELSE HighRiskDict(Tail(items), DictPut(d, Head(items).name, Head(items)))

\* {item["substance"]: item for item in items}
RECURSIVE RegulatoryDict(_, _)
RegulatoryDict(items, d) ==
    IF items = <<>> THEN d
    ELSE RegulatoryDict(Tail(items), DictPut(d, Head(items).substance, Head(items)))

\* product.lower().replace("-", "_").replace(" ", "_")
Normalize(product) == Replace(Replace(Lower(product), "-", "_"), " ", "_")

KPrecheckResult(verdict, safety_signals, reason, references) ==
    [verdict |-> verdict, safety_signals |-> safety_signals, reason |-> reason,
     references |-> references]

Tested(category, index, matched) ==
    [category |-> category, index |-> index, matched |-> matched]

\* KPrecheck.__init__, then the first lines of check_entry
KLoad ==
    /\ k_pc = "init"
    /\ k_high_risk' = HighRiskDict(k_config.high_risk_substances, <<>>)
    /\ k_regulatory' = RegulatoryDict(k_config.regulatory_warnings, <<>>)
    /\ k_signals' = <<>>
    /\ k_verdict' = "pass"
    /\ k_reason' = <<>>
    /\ k_references' = <<>>
    /\ k_i' = 1
    /\ k_pc' = "high_risk"
    /\ UNCHANGED <<entry, k_config, k_evaluated, k_result>>

\* `elif action in ["flag", "warn"] and verdict == "pass"`
HighRiskEscalatesAlways(action, verdict) == action \in {"flag", "warn"}

HighRiskEscalates(action, verdict) == action \in {"flag", "warn"} /\ verdict = "pass"

\* One iteration of `for substance_name, substance_info in self.high_risk_substances.items()`
KHighRisk ==
    /\ k_pc = "high_risk"
    /\ k_i <= Len(k_high_risk)
    /\ LET substance_name == k_high_risk[k_i].key
           substance_info == k_high_risk[k_i].value
           matched == Contains(Normalize(entry.product), substance_name)
           signals == Append(k_signals, <<"High-risk substance: ", substance_name>>)
           refs == Append(k_references, substance_info.reference)
           reject_reason == <<"Prohibited substance: ", substance_info.reason>>
       IN  /\ k_evaluated' = Append(k_evaluated, Tested("high_risk", k_i, matched))
           /\ IF ~matched
              THEN /\ k_i' = k_i + 1
                   /\ UNCHANGED <<k_pc, k_verdict, k_reason, k_signals, k_references,
                                  k_result>>
              ELSE /\ k_signals' = signals
                   /\ k_references' = refs
                   /\ IF substance_info.action = "reject"
                      THEN /\ k_verdict' = "reject"
                           /\ k_reason' = reject_reason
                           /\ k_result' = KPrecheckResult("reject", signals,
                                                          reject_reason, refs)
                           /\ k_pc' = "done"
                           /\ UNCHANGED k_i
                      ELSE /\ IF HighRiskEscalates(substance_info.action, k_verdict)
                              THEN /\ k_verdict' = substance_info.action
                                   /\ k_reason' = <<substance_info.reason>>
                              ELSE UNCHANGED <<k_verdict, k_reason>>
                           /\ k_i' = k_i + 1
                           /\ UNCHANGED <<k_pc, k_result>>
    /\ UNCHANGED <<entry, k_config, k_high_risk, k_regulatory>>

\* the high-risk loop is exhausted
KHighRiskEnd ==
    /\ k_pc = "high_risk"
    /\ k_i > Len(k_high_risk)
    /\ k_pc' = "regulatory"
    /\ k_i' = 1
    /\ UNCHANGED <<entry, k_config, k_high_risk, k_regulatory, k_verdict, k_reason,
                   k_signals, k_references, k_evaluated, k_result>>

\* One iteration of `for substance_name, warning_info in self.regulatory_warnings.items()`
KRegulatory ==
    /\ k_pc = "regulatory"
    /\ k_i <= Len(k_regulatory)
    /\ LET substance_name == k_regulatory[k_i].key
           warning_info == k_regulatory[k_i].value
           matched == Contains(Normalize(entry.product), substance_name)
           signals == Append(k_signals, <<"Regulatory warning (", warning_info.agency,
                                          "): ", warning_info.warning>>)
           reject_reason == <<warning_info.agency, " warning: ", warning_info.warning>>
           action == ActionOr(warning_info, "flag")
       IN  /\ k_evaluated' = Append(k_evaluated, Tested("regulatory", k_i, matched))
           /\ IF ~matched
              THEN /\ k_i' = k_i + 1
                   /\ UNCHANGED <<k_pc, k_verdict, k_reason, k_signals, k_result>>
              ELSE /\ k_signals' = signals
                   /\ IF action = "reject"
                      THEN /\ k_verdict' = "reject"
                           /\ k_reason' = reject_reason
                           /\ k_result' = KPrecheckResult("reject", signals,
                                                          reject_reason, k_references)
                           /\ k_pc' = "done"
                           /\ UNCHANGED k_i
                      ELSE /\ k_i' = k_i + 1
                           /\ UNCHANGED <<k_pc, k_verdict, k_reason, k_result>>
    /\ UNCHANGED <<entry, k_config, k_high_risk, k_regulatory, k_references>>

\* the regulatory loop is exhausted
KRegulatoryEnd ==
    /\ k_pc = "regulatory"
    /\ k_i > Len(k_regulatory)
    /\ k_pc' = "interactions"
    /\ k_i' = 1
    /\ UNCHANGED <<entry, k_config, k_high_risk, k_regulatory, k_verdict, k_reason,
                   k_signals, k_references, k_evaluated, k_result>>

InteractionEscalatesWhenMajor(severity, verdict) == severity = "major"

\* `if severity == "major" and verdict == "pass"`
InteractionEscalates(severity, verdict) == severity = "major" /\ verdict = "pass"

\* One iteration of `for interaction in self.interactions`
KInteraction ==
    /\ k_pc = "interactions"
    /\ k_i <= Len(k_config.interactions)
    /\ LET interaction == k_config.interactions[k_i]
           matched == Contains(Normalize(entry.product), interaction.supplement)
       IN  /\ k_evaluated' = Append(k_evaluated, Tested("interactions", k_i, matched))
           /\ IF ~matched
              THEN UNCHANGED <<k_verdict, k_reason, k_signals>>
              ELSE /\ k_signals' = Append(k_signals,
                                      <<"Drug interaction (", interaction.severity, "): ",
                                        interaction.supplement, " with ",
                                        interaction.interacts_with>>)
                   /\ IF InteractionEscalates(interaction.severity, k_verdict)
                      THEN /\ k_verdict' = "flag"
                           /\ k_reason' = <<"Major drug interaction with ",
                                            interaction.interacts_with>>
                      ELSE UNCHANGED <<k_verdict, k_reason>>
    /\ k_i' = k_i + 1
    /\ UNCHANGED <<entry, k_config, k_high_risk, k_regulatory, k_pc, k_references,
                   k_result>>

\* the interaction loop is exhausted
KInteractionEnd ==
    /\ k_pc = "interactions"
    /\ k_i > Len(k_config.interactions)
    /\ k_pc' = "final"
    /\ UNCHANGED <<entry, k_config, k_high_risk, k_regulatory, k_i, k_verdict, k_reason,
                   k_signals, k_references, k_evaluated, k_result>>

\* `if safety_signals and verdict == "pass": verdict = "note"`
FinalVerdictNoteWhenPass(signals, verdict) ==
    IF verdict = "pass" THEN "note" ELSE verdict

FinalVerdictUnchanged(signals, verdict) == verdict

FinalVerdict(signals, verdict) ==
    IF signals # <<>> /\ verdict = "pass" THEN "note" ELSE verdict

\* the note upgrade and the final return
KFinal ==
    /\ k_pc = "final"
    /\ k_verdict' = FinalVerdict(k_signals, k_verdict)
    /\ k_result' = KPrecheckResult(FinalVerdict(k_signals, k_verdict), k_signals,
                                   k_reason, k_references)
    /\ k_pc' = "done"
    /\ UNCHANGED <<entry, k_config, k_high_risk, k_regulatory, k_i, k_reason, k_signals,
                   k_references, k_evaluated>>

kVars == <<k_config, k_high_risk, k_regulatory, k_pc, k_i, k_verdict, k_reason,
           k_signals, k_references, k_evaluated, k_result>>

KFresh(config, pc) ==
    /\ k_config = config
    /\ k_high_risk = <<>>
    /\ k_regulatory = <<>>
    /\ k_pc = pc
    /\ k_i = 1
    /\ k_verdict = "pass"
    /\ k_reason = <<>>
    /\ k_signals = <<>>
    /\ k_references = <<>>
    /\ k_evaluated = <<>>
    /\ k_result = NoResult

-----------------------------------------------------------------------------
(* RelevanceMatcher: src/src/matching/relevance_matcher.py *)

\* A float in [0,1] is kept as an exact multiple of 1/OverlapScale (the
\* keyword fractions) or of 1/ScoreUnit (scores and thresholds); the keyword
\* lists of the model have 1, 2, 3 or 4 keywords, so every fraction is exact,
\* and on these values the float comparison with 0.7 agrees with the exact one.
OverlapScale == 3 * 4
ScoreUnit == 10 * OverlapScale

\* relevance_threshold: float = 0.7
DefaultThreshold == (7 * ScoreUnit) \div 10

Thresholds == {DefaultThreshold, (1 * ScoreUnit) \div 10, (95 * ScoreUnit) \div 100}

\* Python values that a field of a record or of an article may hold. A number
\* is an int or a float (a float in tenths), a string is a sequence of
\* characters; a key the dict does not have is Absent.
IntValue(n) == [kind |-> "int", n |-> n, s |-> <<>>]
FloatValue(tenths) == [kind |-> "float", n |-> tenths, s |-> <<>>]
StrValue(s) == [kind |-> "str", n |-> 0, s |-> s]
NoneObject == [kind |-> "none", n |-> 0, s |-> <<>>]
ListValue == [kind |-> "list", n |-> 0, s |-> <<>>]
Absent == [kind |-> "absent", n |-> 0, s |-> <<>>]

\* `x or default` for an Optional[str]: None and "" are falsy
OrElse(x, default) == IF x.kind = "none" \/ x.s = <<>> THEN default ELSE x

\* the year _parse_article gives an article whose PubDate has no Year
NoYear == 0

PubMedArticle(pmid, doi, year, title, abstract) ==
    [pmid |-> pmid, doi |-> doi, year |-> year, title |-> title,
     abstract |-> abstract]

Doi(suffix) == StrValue(<<"1", "0", ".", "1", "/", suffix>>)

Articles ==
    {PubMedArticle("p1", Doi("a"), 2020, <<"Magnesium", " ", "glycinate">>,
                   <<"randomized", " ", "controlled", " ", "trial", " ", "RCT", " ",
                     "placebo", " ", "Sleep", " ", "quality">>),
     PubMedArticle("p2", NoneObject, 2021, <<"Magnesium", " ", "glycinate">>,
                   <<"randomized", " ", "controlled", " ", "trial", " ", "RCT", " ",
                     "placebo", " ", "Sleep", " ", "quality">>),
     PubMedArticle("p3", Doi("c"), 2019, <<"magnesium">>,
                   <<"RCT", " ", "placebo", " ", "sleep">>),
     PubMedArticle("p4", Doi("d"), 2018, <<"zinc">>, <<"sleep", " ", "quality">>),
     PubMedArticle("p5", Doi("e"), 2022, <<"glycinate">>, <<>>),
     PubMedArticle("p6", Doi("f"), NoYear, <<"Magnesium", " ", "glycinate">>,
                   <<"sleep", " ", "quality">>)}

MatcherEntries ==
    [intervention_type : {<<"supplements">>},
     product : {<<"Magnesium", "-", "glycinate">>, <<"magnesium">>, <<>>},
     outcome : {<<"sleep">>, <<"sleep", "_", "quality">>}]

PaperLists(n) == UNION {[1..len -> Articles] : len \in 0..n}

\* str.split(): the maximal runs of atoms other than " "
RECURSIVE Split(_, _, _)
Split(s, word, words) ==
    IF s = <<>>
    THEN IF word = <<>> THEN words ELSE Append(words, word)
    ELSE IF Head(s) = " "
         THEN Split(Tail(s), <<>>, IF word = <<>> THEN words ELSE Append(words, word))
         ELSE Split(Tail(s), Append(word, Head(s)), words)

\* text.lower().replace("-", " ").replace("_", " ").split()
ExtractKeywords(text) ==
    Split(Replace(Replace(Lower(text), "-", " "), "_", " "), <<>>, <<>>)

\* matches / len(keywords), 0.0 for no keyword
KeywordOverlap(keywords, text) ==
    IF keywords = <<>>
    THEN 0
    ELSE (Cardinality({i \in 1..Len(keywords) : Contains(text, keywords[i])})
          * OverlapScale) \div Len(keywords)

\* ["randomized", "controlled trial", "rct", "placebo"]
DesignKeywords ==
    << <<"randomized">>, <<"controlled", " ", "trial">>, <<"rct">>, <<"placebo">> >>

PopulationMatchFull == OverlapScale

\* population_match = 0.5
PopulationMatch == OverlapScale \div 2

\* 0.3 * intervention + 0.3 * outcome + 0.2 * design + 0.2 * population
WeightedScoreSwapped(intervention, outcome, design, population) ==
    2 * intervention + 3 * outcome + 3 * design + 2 * population

WeightedScore(intervention, outcome, design, population) ==
    3 * intervention + 3 * outcome + 2 * design + 2 * population

MatchResult(pmid, doi, score, intervention, outcome, design, population, matched) ==
    [pmid |-> pmid, doi |-> doi, relevance_score |-> score,
     intervention_match |-> intervention, outcome_match |-> outcome,
     design_match |-> design, population_match |-> population, matched |-> matched]

\* f"{paper.title} {paper.abstract}".lower()
PaperText(paper) == Lower(paper.title \o <<" ">> \o paper.abstract)

\* RelevanceMatcher._score_paper
ScorePaperCarryOver(e, paper) ==
    LET paper_text == PaperText(paper)
        intervention_match == KeywordOverlap(ExtractKeywords(e.product), paper_text)
        outcome_match == KeywordOverlap(ExtractKeywords(e.outcome), paper_text)
        design_match == KeywordOverlap(DesignKeywords, paper_text)
        relevance_score == WeightedScore(intervention_match, outcome_match,
                                         design_match, PopulationMatch)
                           + 2 * Len(m_results) * OverlapScale
    IN  MatchResult(paper.pmid, OrElse(paper.doi, StrValue(<<>>)),
                    relevance_score, intervention_match, outcome_match, design_match,
                    PopulationMatch, relevance_score >= m_threshold)

ScorePaper(e, paper) ==
    LET paper_text == PaperText(paper)
        intervention_match == KeywordOverlap(ExtractKeywords(e.product), paper_text)
        outcome_match == KeywordOverlap(ExtractKeywords(e.outcome), paper_text)
        design_match == KeywordOverlap(DesignKeywords, paper_text)
        relevance_score == WeightedScore(intervention_match, outcome_match,
                                         design_match, PopulationMatch)
    IN  MatchResult(paper.pmid, OrElse(paper.doi, StrValue(<<>>)),
                    relevance_score, intervention_match, outcome_match, design_match,
                    PopulationMatch, relevance_score >= m_threshold)

\* A scored candidate: the MatchResult and the position the candidate had in
\* the input list.
Scored(result, index) == [result |-> result, candidate |-> index]

\* list.sort(key=lambda x: x.relevance_score, reverse=True) is a stable sort by
\* descending key: an element is placed after every element already placed
\* whose key is not smaller.
StaysBeforeStrict(placed, x) == placed.result.relevance_score > x.result.relevance_score

StaysBefore(placed, x) == placed.result.relevance_score >= x.result.relevance_score

RECURSIVE InsertSorted(_, _)
InsertSorted(sorted, x) ==
    IF sorted = <<>> THEN <<x>>
    ELSE IF StaysBefore(Head(sorted), x)
         THEN <<Head(sorted)>> \o InsertSorted(Tail(sorted), x)
         ELSE <<x>> \o sorted

RECURSIVE SortByScoreDescending(_, _)
SortByScoreDescending(items, sorted) ==
    IF items = <<>> THEN sorted
    ELSE SortByScoreDescending(Tail(items), InsertSorted(sorted, Head(items)))

\* One iteration of `for paper in papers`
MatchScorePaper ==
    /\ m_pc = "loop"
    /\ m_i <= Len(m_papers)
    /\ m_results' = Append(m_results, Scored(ScorePaper(entry, m_papers[m_i]), m_i))
    /\ m_i' = m_i + 1
    /\ UNCHANGED <<entry, m_threshold, m_papers, m_pc>>

\* results.sort(...) and the return
MatchSortAndReturn ==
    /\ m_pc = "loop"
    /\ m_i > Len(m_papers)
    /\ m_results' = SortByScoreDescending(m_results, <<>>)
    /\ m_pc' = "done"
    /\ UNCHANGED <<entry, m_threshold, m_papers, m_i>>

MatcherFresh(threshold, papers, pc) ==
    /\ m_threshold = threshold
    /\ m_papers = papers
    /\ m_pc = pc
    /\ m_i = 1
    /\ m_results = <<>>

-----------------------------------------------------------------------------
(* GeminiExtractor: src/src/extraction/gemini_client.py *)

DefaultModel == "gemini-2.5-flash-lite"

ModelNames == {DefaultModel, "gemini-2.5-pro"}

\* temperature in tenths: 0.0 and 0.7
Temperatures == {0, 7}

RequiredTopLevel == {"outcome_context", "effect", "clinical_context", "sample_sizes"}
EffectRequired == {"effect_point", "ci_low", "ci_high"}
SampleSizesRequired == {"n_treatment", "n_control"}

\* A parsed JSON object: its top-level keys and the keys of three of its members.
ExtractionData(top, outcome_context, effect, sample_sizes) ==
    [top |-> top, outcome_context |-> outcome_context, effect |-> effect,
     sample_sizes |-> sample_sizes]

CompleteData ==
    ExtractionData(RequiredTopLevel, {"measure_name"}, EffectRequired, SampleSizesRequired)

NoData == ExtractionData({}, {}, {}, {})

\* What one generate_content call can do: raise, or return a text that is not
\* JSON, that is JSON but no object ("json_scalar"), or that is a JSON object,
\* with or without usage metadata.
Response(kind, data, tokens) == [kind |-> kind, data |-> data, tokens |-> tokens]

Responses ==
    {Response("raises", NoData, <<>>),
     Response("not_json", NoData, <<>>),
     Response("json_scalar", NoData, <<1200>>),
     Response("json", CompleteData, <<1200>>),
     Response("json", CompleteData, <<>>),
     Response("json", ExtractionData(RequiredTopLevel \ {"clinical_context"},
                                     {"measure_name"}, EffectRequired,
                                     SampleSizesRequired), <<1200>>),
     Response("json", ExtractionData(RequiredTopLevel, {}, EffectRequired,
                                     SampleSizesRequired), <<1200>>),
     Response("json", ExtractionData(RequiredTopLevel, {"measure_name"},
                                     EffectRequired \ {"ci_low"},
                                     SampleSizesRequired), <<1200>>),
     Response("json", ExtractionData(RequiredTopLevel, {"measure_name"},
                                     EffectRequired, {"n_treatment"}), <<1200>>)}

ValidateExtractionTopLevelOnly(data) ==
    \A field \in RequiredTopLevel : field \in data.top

\* GeminiExtractor._validate_extraction
ValidateExtraction(data) ==
    /\ \A field \in RequiredTopLevel : field \in data.top
    /\ "measure_name" \in data.outcome_context
    /\ \A field \in EffectRequired : field \in data.effect
    /\ "n_treatment" \in data.sample_sizes /\ "n_control" \in data.sample_sizes

\* ExtractionResult; model and temperature have the dataclass defaults unless given
ExtractionResult(success, data, error, model, temperature, tokens_used) ==
    [success |-> success, data |-> data, error |-> error, model |-> model,
     temperature |-> temperature, tokens_used |-> tokens_used]

ExtractionFailure(error) ==
    ExtractionResult(FALSE, NoData, error, DefaultModel, 0, <<>>)

\* str(e) of the exception a failed attempt raises
ExceptionText(response) ==
    IF response.kind = "raises" THEN "provider error"
    ELSE IF response.kind = "not_json" THEN "Expecting value"
    ELSE IF response.kind = "json_scalar" THEN "argument of type 'int' is not iterable"
    ELSE "Extraction failed validation"

\* the class of the exception a failed attempt raises: generate_content
\* raises, json.loads raises JSONDecodeError, `field not in data` raises
\* TypeError on a number, a failed validation raises ValueError
ExceptionClass(response) ==
    IF response.kind = "raises" THEN "Exception"
    ELSE IF response.kind = "not_json" THEN "JSONDecodeError"
    ELSE IF response.kind = "json_scalar" THEN "TypeError"
    ELSE "ValueError"

\* `except json.JSONDecodeError` of the inner try
InnerCatches(class) == class = "JSONDecodeError"

\* `except Exception` of the outer try
OuterCatchesValueErrorOnly(class) == class = "ValueError"

OuterCatches(class) == class \in {"Exception", "JSONDecodeError", "TypeError", "ValueError"}

\* the error of a failed attempt: f"JSON parse error: {e}" or str(e)
AttemptError(response) ==
    IF InnerCatches(ExceptionClass(response))
    THEN <<"JSON parse error: ", ExceptionText(response)>>
    ELSE <<ExceptionText(response)>>

AttemptSucceeds(response) ==
    response.kind = "json" /\ ValidateExtraction(response.data)

IsLastAttemptNever(attempt, max_retries) == FALSE

\* `if attempt == self.max_retries - 1`
IsLastAttempt(attempt, max_retries) == attempt = max_retries - 1

\* time.sleep(2 ** attempt)
BackoffLinear(attempt) == 2 * attempt

Backoff(attempt) == 2 ^ attempt

CallEvent(attempt, temperature, ok, error) ==
    [type |-> "call", attempt |-> attempt, temperature |-> temperature, ok |-> ok,
     error |-> error, seconds |-> 0]

SleepEvent(attempt, seconds) ==
    [type |-> "sleep", attempt |-> attempt, temperature |-> 0, ok |-> FALSE,
     error |-> <<>>, seconds |-> seconds]

\* One iteration of `for attempt in range(self.max_retries)` up to its return
\* or its sleep
XAttempt ==
    /\ x_pc = "attempt"
    /\ x_attempt < x_max_retries
    /\ \E response \in Responses :
           /\ x_log' = Append(x_log,
                              CallEvent(x_attempt, x_temperature,
                                        AttemptSucceeds(response),
                                        IF AttemptSucceeds(response) THEN <<>>
                                        ELSE AttemptError(response)))
           /\ IF AttemptSucceeds(response)
              THEN /\ x_result' = ExtractionResult(TRUE, response.data, <<>>,
                                                   x_model_name, x_temperature,
                                                   response.tokens)
                   /\ x_pc' = "done"
              ELSE IF ~ InnerCatches(ExceptionClass(response))
                      /\ ~ OuterCatches(ExceptionClass(response))
                   THEN /\ x_pc' = "raised"
                        /\ UNCHANGED x_result
              ELSE IF IsLastAttempt(x_attempt, x_max_retries)
                   THEN /\ x_result' = ExtractionFailure(AttemptError(response))
                        /\ x_pc' = "done"
                   ELSE /\ x_pc' = "sleep"
                        /\ UNCHANGED x_result
    /\ UNCHANGED <<x_model_name, x_temperature, x_max_retries, x_attempt>>

\* time.sleep(2 ** attempt), then the next iteration
XSleep ==
    /\ x_pc = "sleep"
    /\ x_log' = Append(x_log, SleepEvent(x_attempt, Backoff(x_attempt)))
    /\ x_attempt' = x_attempt + 1
    /\ x_pc' = "attempt"
    /\ UNCHANGED <<x_model_name, x_temperature, x_max_retries, x_result>>

\* the loop ends without a return: "Max retries exceeded"
XExhausted ==
    /\ x_pc = "attempt"
    /\ x_attempt >= x_max_retries
    /\ x_result' = ExtractionFailure(<<"Max retries exceeded">>)
    /\ x_pc' = "done"
    /\ UNCHANGED <<x_model_name, x_temperature, x_max_retries, x_attempt, x_log>>

ExtractorFresh(model, temperature, max_retries, pc) ==
    /\ x_model_name = model
    /\ x_temperature = temperature
    /\ x_max_retries = max_retries
    /\ x_pc = pc
    /\ x_attempt = 0
    /\ x_log = <<>>
    /\ x_result = NoResult

ExtractorIdle == ExtractorFresh(DefaultModel, 0, 0, "idle")

-----------------------------------------------------------------------------
(* The extraction runner: src/tools/run_30_sample_extraction.py *)

\* the study_id of row i of abstracts_df
StudyIdOf(i) == <<"Unknown", "2", "0", "2", "0", "-", ToString(i)>>

StudyId == StudyIdOf(0)

\* max_retries of a GeminiExtractor made without that argument
DefaultMaxRetries == 3

\* the dict extraction_record the loop of Step 4 builds from the result of
\* gemini.extract_from_abstract; has_data tells whether it has the key "data"
ExtractionRecordAlwaysWithData(study_id, result) ==
    [study_id |-> study_id,
     success |-> result.success,
     model |-> result.model,
     temperature |-> result.temperature,
     tokens_used |-> result.tokens_used,
     has_data |-> TRUE,
     data |-> result.data,
     error |-> IF result.success THEN <<>> ELSE result.error]

ExtractionRecord(study_id, result) ==
    [study_id |-> study_id,
     success |-> result.success,
     model |-> result.model,
     temperature |-> result.temperature,
     tokens_used |-> result.tokens_used,
     has_data |-> result.success,
     data |-> IF result.success THEN result.data ELSE NoData,
     error |-> IF result.success THEN <<>> ELSE result.error]

\* the head of the loop of Step 4 for the next row:
\* gemini.extract_from_abstract(...) is called
RunnerExtract ==
    /\ r_pc = "loop"
    /\ r_i < r_studies
    /\ r_called' = Append(r_called, r_i)
    /\ r_pc' = "extract"
    /\ x_pc' = "attempt"
    /\ x_attempt' = 0
    /\ x_log' = <<>>
    /\ x_result' = NoResult
    /\ UNCHANGED <<x_model_name, x_temperature, x_max_retries, r_extractions, r_studies,
                   r_i>>

\* the body of the loop of Step 4 after extract_from_abstract has returned:
\* extractions.append(extraction_record), whatever result.success is, and on
\* to the next row
RunnerRecord ==
    /\ r_pc = "extract"
    /\ x_pc = "done"
    /\ r_extractions' = Append(r_extractions, ExtractionRecord(StudyIdOf(r_i), x_result))
    /\ r_i' = r_i + 1
    /\ r_pc' = "loop"
    /\ UNCHANGED <<r_studies, r_called>>

\* Step 5 after the last row: the list is written, one line for each element
RunnerSave ==
    /\ r_pc = "loop"
    /\ r_i >= r_studies
    /\ r_pc' = "recorded"
    /\ UNCHANGED <<r_extractions, r_studies, r_i, r_called>>

RunnerFresh(pc, studies, called) ==
    /\ r_pc = pc
    /\ r_extractions = <<>>
    /\ r_studies = studies
    /\ r_i = 0
    /\ r_called = called

RunnerIdle == RunnerFresh("idle", 0, <<>>)

-----------------------------------------------------------------------------
(* EvidenceValidator: src/src/extraction/validators.py *)

\* the list `required` of validate_record
Required ==
    <<"study_id", "year", "design", "effect_type", "effect_point", "ci_low",
      "ci_high", "n_treat", "n_ctrl", "risk_of_bias", "doi", "journal_id">>

ValidEffectTypes == {<<"SMD">>, <<"MD">>, <<"OR">>, <<"RR">>, <<"HR">>}
ValidRob == {<<"low">>, <<"moderate">>, <<"high">>, <<"unclear">>}
MinYear == 1990
MaxYear == 2025

Digits == <<"0", "1", "2", "3", "4", "5", "6", "7", "8", "9">>
IsDigit(c) == \E d \in 1..10 : Digits[d] = c
DigitValue(c) == (CHOOSE d \in 1..10 : Digits[d] = c) - 1

\* the number a string of digits denotes
RECURSIVE DigitsNumber(_, _)
DigitsNumber(s, acc) ==
    IF s = <<>> THEN acc ELSE DigitsNumber(Tail(s), 10 * acc + DigitValue(Head(s)))

\* a decimal integer literal: digits, after an optional sign
IsIntLiteral(s) ==
    LET body == IF s # <<>> /\ Head(s) \in {"-", "+"} THEN Tail(s) ELSE s
    IN  body # <<>> /\ \A i \in 1..Len(body) : IsDigit(body[i])

IntLiteralNumber(s) ==
    IF Head(s) = "-" THEN 0 - DigitsNumber(Tail(s), 0)
    ELSE IF Head(s) = "+" THEN DigitsNumber(Tail(s), 0)
    ELSE DigitsNumber(s, 0)

Converted(n) == [ok |-> TRUE, n |-> n, error |-> "none"]
NotConverted(error) == [ok |-> FALSE, n |-> 0, error |-> error]

\* int(value): a float is truncated towards zero, a string is parsed, None
\* and a list raise TypeError, any other string ValueError
IntOf(value) ==
    IF value.kind = "int" THEN Converted(value.n)
    ELSE IF value.kind = "float"
    THEN Converted(IF value.n >= 0 THEN value.n \div 10 ELSE 0 - ((0 - value.n) \div 10))
    ELSE IF value.kind = "str"
    THEN IF IsIntLiteral(value.s) THEN Converted(IntLiteralNumber(value.s))
         ELSE NotConverted("ValueError")
    ELSE NotConverted("TypeError")

\* float(value), in tenths
FloatOf(value) ==
    IF value.kind = "int" THEN Converted(10 * value.n)
    ELSE IF value.kind = "float" THEN Converted(value.n)
    ELSE IF value.kind = "str"
    THEN IF IsIntLiteral(value.s) THEN Converted(10 * IntLiteralNumber(value.s))
         ELSE NotConverted("ValueError")
    ELSE NotConverted("TypeError")

\* str.startswith(prefix)
StartsWith(s, prefix) ==
    Len(s) >= Len(prefix) /\ SubSeq(s, 1, Len(prefix)) = prefix

DoiPrefix == <<"1", "0", ".">>

\* an entry of errors (or a logged warning): the text of the f-string, the
\* field it names and the value it embeds
Message(text, field, value) == [text |-> text, field |-> field, value |-> value]

\* `field not in record or record[field] is None`
IsMissingAbsentOnly(record, field) == record[field].kind = "absent"


IsMissing(record, field) == record[field].kind \in {"absent", "none"}

\* the loop over `required`: one message for each missing field, in order
RECURSIVE MissingErrors(_, _)
MissingErrors(record, fields) ==
    IF fields = <<>> THEN <<>>
    ELSE (IF IsMissing(record, Head(fields))
          THEN <<Message("Missing required field: ", Head(fields), Absent)>>
          ELSE <<>>) \o MissingErrors(record, Tail(fields))

\* the bounds of the year check
YearInRangeUpTo2024(year) == MinYear <= year /\ year <= MaxYear - 1

YearInRange(year) == MinYear <= year /\ year <= MaxYear

\* the try block on year
YearErrors(record) ==
    LET year == IntOf(record["year"])
    IN  IF ~year.ok THEN <<Message("Invalid year: ", "year", record["year"])>>
        ELSE IF ~YearInRange(year.n)
        THEN <<Message("Year out of range: ", "year", IntValue(year.n))>>
        ELSE <<>>

\* the try block on effect_point, ci_low, ci_high: the first value float()
\* refuses gives the one error of the block
NumericErrors(record) ==
    LET effect_point == FloatOf(record["effect_point"])
        ci_low == FloatOf(record["ci_low"])
        ci_high == FloatOf(record["ci_high"])
    IN  IF ~effect_point.ok
        THEN <<Message("Invalid numeric values: ", "effect_point", record["effect_point"])>>
        ELSE IF ~ci_low.ok
        THEN <<Message("Invalid numeric values: ", "ci_low", record["ci_low"])>>
        ELSE IF ~ci_high.ok
        THEN <<Message("Invalid numeric values: ", "ci_high", record["ci_high"])>>
        ELSE <<>>

\* `if not (ci_low <= ci_high)`: reached when float() took all three values
CiOrderUnusual(record) ==
    LET effect_point == FloatOf(record["effect_point"])
        ci_low == FloatOf(record["ci_low"])
        ci_high == FloatOf(record["ci_high"])
    IN  effect_point.ok /\ ci_low.ok /\ ci_high.ok /\ ~(ci_low.n <= ci_high.n)

\* the logger.warning of an unusual order
CiOrderWarnings(record) ==
    IF CiOrderUnusual(record)
    THEN <<Message("CI order unusual: ", "ci_low", record["ci_low"])>>
    ELSE <<>>

\* what an unusual order appends to errors: nothing
CiOrderErrorsAppended(record) == CiOrderWarnings(record)

CiOrderErrors(record) == <<>>

\* `if n_treat <= 0` and `if n_ctrl <= 0`
SampleSizeTooSmall(n) == n <= 0

\* the try block on n_treat and n_ctrl
SampleSizeErrors(record) ==
    LET n_treat == IntOf(record["n_treat"])
        n_ctrl == IntOf(record["n_ctrl"])
    IN  IF ~n_treat.ok
        THEN <<Message("Invalid sample sizes: ", "n_treat", record["n_treat"])>>
        ELSE IF ~n_ctrl.ok
        THEN <<Message("Invalid sample sizes: ", "n_ctrl", record["n_ctrl"])>>
        ELSE (IF SampleSizeTooSmall(n_treat.n)
              THEN <<Message("must be > 0, got ", "n_treat", IntValue(n_treat.n))>> ELSE <<>>)
             \o (IF SampleSizeTooSmall(n_ctrl.n)
                 THEN <<Message("must be > 0, got ", "n_ctrl", IntValue(n_ctrl.n))>> ELSE <<>>)

\* `record["effect_type"] not in valid_effect_types`
EffectTypeErrors(record) ==
    IF record["effect_type"].kind = "str" /\ record["effect_type"].s \in ValidEffectTypes
    THEN <<>>
    ELSE <<Message("Invalid effect_type: ", "effect_type", record["effect_type"])>>

\* `record["risk_of_bias"] not in valid_rob`
RobErrors(record) ==
    IF record["risk_of_bias"].kind = "str" /\ record["risk_of_bias"].s \in ValidRob
    THEN <<>>
    ELSE <<Message("Invalid risk_of_bias: ", "risk_of_bias", record["risk_of_bias"])>>

\* doi.startswith raises AttributeError on a value that is no string
DoiRaises(record) == record["doi"].kind # "str"

\* `if not doi.startswith("10.")`
DoiErrors(record) ==
    IF StartsWith(record["doi"].s, DoiPrefix) THEN <<>>
    ELSE <<Message("Invalid DOI format: ", "doi", record["doi"])>>

\* what validate_record gives: the pair it returns, or the exception it raises
Returned(is_valid, errors) == [raised |-> FALSE, is_valid |-> is_valid, errors |-> errors]
Raised == [raised |-> TRUE, is_valid |-> FALSE, errors |-> <<>>]

\* the checks after the required fields, in the order of the code
CheckErrors(record) ==
    YearErrors(record) \o NumericErrors(record) \o CiOrderErrors(record)
    \o SampleSizeErrors(record) \o EffectTypeErrors(record) \o RobErrors(record)
    \o DoiErrors(record)

\* EvidenceValidator.validate_record as one call
ValidateRecord(record) ==
    LET missing == MissingErrors(record, Required)
    IN  IF missing # <<>> THEN Returned(FALSE, missing)
        ELSE IF DoiRaises(record) THEN Raised
        ELSE Returned(CheckErrors(record) = <<>>, CheckErrors(record))

\* what validate_dataframe gives: the pair it returns, or the exception of a
\* validate_record call, which it lets through
DataframeReturned(all_valid, all_errors) ==
    [raised |-> FALSE, all_valid |-> all_valid, all_errors |-> all_errors]
DataframeRaised == [raised |-> TRUE, all_valid |-> FALSE, all_errors |-> <<>>]

\* the loop of validate_dataframe over df.iterrows(), the index idx from 0:
\* all_errors[idx] = errors for each row validate_record rejects
RECURSIVE AllErrors(_, _, _)
AllErrors(rows, idx, all_errors) ==
    IF idx >= Len(rows) THEN all_errors
    ELSE LET result == ValidateRecord(rows[idx + 1])
         IN  AllErrors(rows, idx + 1,
                       IF result.is_valid THEN all_errors
                       ELSE (idx :> result.errors) @@ all_errors)

\* EvidenceValidator.validate_dataframe as one call
ValidateDataframeAlwaysValid(rows) ==
    IF \E i \in 1..Len(rows) : ValidateRecord(rows[i]).raised THEN DataframeRaised
    ELSE DataframeReturned(TRUE, AllErrors(rows, 0, <<>>))

ValidateDataframe(rows) ==
    IF \E i \in 1..Len(rows) : ValidateRecord(rows[i]).raised THEN DataframeRaised
    ELSE LET all_errors == AllErrors(rows, 0, <<>>)
         IN  DataframeReturned(DOMAIN all_errors = {}, all_errors)

\* A record every check accepts
BaseRecord ==
    [study_id |-> StrValue(<<"Abbasi2012">>),
     year |-> IntValue(2012),
     design |-> StrValue(<<"randomized controlled trial">>),
     effect_type |-> StrValue(<<"SMD">>),
     effect_point |-> FloatValue(-5),
     ci_low |-> FloatValue(-8),
     ci_high |-> FloatValue(-2),
     n_treat |-> IntValue(30),
     n_ctrl |-> IntValue(30),
     risk_of_bias |-> StrValue(<<"moderate">>),
     doi |-> StrValue(<<"1", "0", ".", "1">>),
     journal_id |-> StrValue(<<"J Res Med Sci">>)]

\* Other values a field of a record can have
Alternatives(field) ==
    CASE field = "year" ->
             {IntValue(MinYear - 1), IntValue(MinYear), IntValue(MaxYear),
              IntValue(MaxYear + 1), IntValue(0),
              StrValue(<<"2", "0", "2", "5">>), StrValue(<<"2", "0", "2", "6">>),
              StrValue(<<"n", "d">>), NoneObject, Absent, ListValue}
      [] field = "effect_type" ->
             {StrValue(<<"HR">>), StrValue(<<"d">>), IntValue(1), Absent}
      [] field = "effect_point" ->
             {IntValue(1), StrValue(<<"-", "5">>), StrValue(<<"a">>), NoneObject}
      [] field = "ci_low" -> {FloatValue(3), StrValue(<<"x">>), Absent}
      [] field = "ci_high" -> {FloatValue(-9), IntValue(2), ListValue}
      [] field = "n_treat" ->
             {IntValue(1), IntValue(0), IntValue(-1), StrValue(<<"3", "0">>),
              StrValue(<<"0">>), StrValue(<<>>), NoneObject}
      [] field = "n_ctrl" -> {IntValue(1), IntValue(0), StrValue(<<"x">>), Absent}
      [] field = "risk_of_bias" -> {StrValue(<<"low">>), StrValue(<<"unknown">>), Absent}
      [] field = "doi" ->
             {StrValue(<<"d", "1", "0", ".">>), StrValue(<<"1", "0">>), StrValue(<<>>),
              IntValue(10), NoneObject, Absent}
      [] OTHER -> {NoneObject, Absent}

\* the records that differ from BaseRecord in at most n fields
RECURSIVE RecordsWithin(_)
RecordsWithin(n) ==
    IF n = 0 THEN {BaseRecord}
    ELSE LET fewer == RecordsWithin(n - 1)
         IN  fewer \cup {[r EXCEPT ![Required[f]] = v] :
                            <<r, f, v>> \in {<<r, f, v>> \in fewer \X (1..Len(Required)) \X
                                UNION {Alternatives(Required[g]) : g \in 1..Len(Required)} :
                                    v \in Alternatives(Required[f])}}

\* validate_record, the loop over `required` and `if errors: return False, errors`
VRequired ==
    /\ v_pc = "required"
    /\ LET missing == MissingErrors(v_record, Required)
       IN  /\ v_errors' = missing
           /\ v_checks' = <<"required">>
           /\ IF missing # <<>>
              THEN v_result' = Returned(FALSE, missing) /\ v_pc' = "done"
              ELSE v_pc' = "types" /\ UNCHANGED v_result
    /\ UNCHANGED <<v_record, v_warnings>>

\* the three try blocks: year, effect and interval, sample sizes
VTypeChecks ==
    /\ v_pc = "types"
    /\ v_errors' = v_errors \o YearErrors(v_record) \o NumericErrors(v_record)
                   \o CiOrderErrors(v_record) \o SampleSizeErrors(v_record)
    /\ v_warnings' = v_warnings \o CiOrderWarnings(v_record)
    /\ v_checks' = v_checks \o <<"year", "numeric", "sample_sizes">>
    /\ v_pc' = "enums"
    /\ UNCHANGED <<v_record, v_result>>

\* effect type and risk of bias
VEnumChecks ==
    /\ v_pc = "enums"
    /\ v_errors' = v_errors \o EffectTypeErrors(v_record) \o RobErrors(v_record)
    /\ v_checks' = v_checks \o <<"effect_type", "risk_of_bias">>
    /\ v_pc' = "doi"
    /\ UNCHANGED <<v_record, v_warnings, v_result>>

\* the DOI check and the return
VDoi ==
    /\ v_pc = "doi"
    /\ v_checks' = Append(v_checks, "doi")
    /\ IF DoiRaises(v_record)
       THEN v_result' = Raised /\ UNCHANGED v_errors
       ELSE LET errors == v_errors \o DoiErrors(v_record)
            IN  v_errors' = errors /\ v_result' = Returned(errors = <<>>, errors)
    /\ v_pc' = "done"
    /\ UNCHANGED <<v_record, v_warnings>>

vVars == <<v_record, v_pc, v_checks, v_errors, v_warnings, v_result>>

ValidatorFresh(record, pc) ==
    /\ v_record = record
    /\ v_pc = pc
    /\ v_checks = <<>>
    /\ v_errors = <<>>
    /\ v_warnings = <<>>
    /\ v_result = NoResult

ValidatorIdle == ValidatorFresh(BaseRecord, "idle")

-----------------------------------------------------------------------------
(* PubMedClient: src/src/search/pubmed_client.py                             *)
(* CrossrefClient: src/src/search/crossref_client.py                         *)

\* Time is counted in ticks.
TicksPerSecond == 150

\* time.time() when the client is constructed; the constructors set
\* last_request_time = 0
StartTime == 1000

\* batch_size of fetch_details
BatchSize == 100

\* PubMedClient(email, api_key): rate_limit = 10 if api_key else 3
PubMedClient(api_key) ==
    [class |-> "PubMedClient",
     rate_limit |-> IF api_key.kind = "none" \/ api_key.s = <<>> THEN 3 ELSE 10]

\* CrossrefClient(mailto): rate_limit = 50
CrossrefClient == [class |-> "CrossrefClient", rate_limit |-> 50]

Clients == {PubMedClient(NoneObject), PubMedClient(StrValue(<<"k">>)), CrossrefClient}

\* min_interval = 1.0 / self.rate_limit
MinInterval(client) == TicksPerSecond \div client.rate_limit

\* _throttle: the time after the sleep, which is also the new
\* last_request_time
Throttle(client, now, last_request_time) ==
    LET elapsed == now - last_request_time
        min_interval == MinInterval(client)
    IN  IF elapsed < min_interval THEN now + (min_interval - elapsed) ELSE now

\* What a request does: it returns, or it raises an exception of one of
\* these classes
RequestOutcomes == {"ok", "URLError", "RuntimeError"}

\* `except Exception` of search and of the batch loop
ClientCatchesUrlErrorOnly(outcome) == outcome = "URLError"

ClientCatches(outcome) == outcome \in {"URLError", "RuntimeError"}

Request(time, api, outcome, call) ==
    [time |-> time, api |-> api, raised |-> outcome # "ok", call |-> call]

\* an id whose record _parse_article cannot parse: it returns None
UnparsedPmid == "p0"

Pmids(papers) == [i \in 1..Len(papers) |-> papers[i].pmid]

\* the articles parsed from the records of one batch: `if article:` drops
\* the None of _parse_article
IsParsed(pmid) == \E a \in Articles : a.pmid = pmid

ParsedArticles(batch) ==
    LET parsed == SelectSeq(batch, IsParsed)
    IN  [i \in 1..Len(parsed) |-> CHOOSE a \in Articles : a.pmid = parsed[i]]

\* pmids[i : i + batch_size]
Batch(pmids, i) ==
    SubSeq(pmids, i + 1, IF i + BatchSize < Len(pmids) THEN i + BatchSize ELSE Len(pmids))

\* one full batch of ids whose records do not parse
Padding == [i \in 1..BatchSize |-> UnparsedPmid]

\* the id lists esearch may answer with: the short ones, of up to n
\* articles, and two of more than batch_size ids
IdLists(n) ==
    {Pmids(papers) : papers \in PaperLists(n)}
    \cup {Padding \o <<"p1">>, <<"p1">> \o Padding \o <<"p6">>}

\* the items a Crossref search may answer with, as parsed articles
CrossrefItemLists == {<<>>, <<"10.1/a">>, <<"10.1/a", "10.1/c">>}

\* the servers: the times a request may take, and the length n of the short
\* id lists
Network(latencies, n) == [latencies |-> latencies, short |-> n]

ClientFresh(client, network, pc) ==
    /\ c_client = client
    /\ c_network = network
    /\ c_now = StartTime
    /\ c_last_request_time = 0
    /\ c_requests = <<>>
    /\ c_pc = pc
    /\ c_op = "none"
    /\ c_calls = 0
    /\ c_pmids = <<>>
    /\ c_i = 0
    /\ c_articles = <<>>
    /\ c_result = <<>>

ClientIdle == ClientFresh(CrossrefClient, Network({0}, 0), "idle")

\* The caller invokes a public method of the client once the previous one
\* has returned: search, fetch_details or search_and_fetch of a
\* PubMedClient, search of a CrossrefClient
CCall ==
    /\ c_pc \in {"ready", "returned"}
    /\ c_calls < MaxCalls
    /\ c_calls' = c_calls + 1
    /\ IF c_client.class = "CrossrefClient"
       THEN /\ c_op' = "crossref_search"
            /\ c_pc' = "crossref_search"
            /\ UNCHANGED c_pmids
       ELSE \E op \in {"search", "fetch_details", "search_and_fetch"} :
                /\ c_op' = op
                /\ IF op = "fetch_details"
                   THEN /\ c_pc' = "fetch_details"
                        /\ c_pmids' \in IdLists(c_network.short)
                   ELSE /\ c_pc' = "search"
                        /\ UNCHANGED c_pmids
    /\ UNCHANGED <<c_client, c_network, c_now, c_last_request_time, c_requests, c_i,
                   c_articles, c_result>>

\* PubMedClient.search: _throttle(), then the esearch request; an exception
\* the handler catches gives []. Within search_and_fetch the list goes to
\* fetch_details.
CSearch ==
    /\ c_pc = "search"
    /\ LET time == Throttle(c_client, c_now, c_last_request_time)
       IN  /\ c_last_request_time' = time
           /\ \E outcome \in RequestOutcomes, latency \in c_network.latencies,
                 id_list \in IdLists(c_network.short) :
                  /\ c_requests' = Append(c_requests,
                                          Request(time, "esearch", outcome, c_calls))
                  /\ c_now' = time + latency
                  /\ IF outcome # "ok" /\ ~ClientCatches(outcome)
                     THEN /\ c_pc' = "raised"
                          /\ UNCHANGED <<c_pmids, c_result>>
                     ELSE IF c_op = "search"
                     THEN /\ c_result' = (IF outcome = "ok" THEN id_list ELSE <<>>)
                          /\ c_pc' = "returned"
                          /\ UNCHANGED c_pmids
                     ELSE /\ c_pmids' = (IF outcome = "ok" THEN id_list ELSE <<>>)
                          /\ c_pc' = "fetch_details"
                          /\ UNCHANGED c_result
    /\ UNCHANGED <<c_client, c_network, c_op, c_calls, c_i, c_articles>>

\* PubMedClient.fetch_details up to its loop: [] for no ids, else
\* _throttle() and the empty list articles
CFetchDetails ==
    /\ c_pc = "fetch_details"
    /\ IF c_pmids = <<>>
       THEN /\ c_result' = <<>>
            /\ c_pc' = "returned"
            /\ UNCHANGED <<c_now, c_last_request_time, c_i, c_articles>>
       ELSE LET time == Throttle(c_client, c_now, c_last_request_time)
            IN  /\ c_last_request_time' = time
                /\ c_now' = time
                /\ c_articles' = <<>>
                /\ c_i' = 0
                /\ c_pc' = "batch"
                /\ UNCHANGED c_result
    /\ UNCHANGED <<c_client, c_network, c_requests, c_op, c_calls, c_pmids>>

\* one iteration of the loop of fetch_details: the efetch request for the
\* batch; its articles are appended, or the exception is logged
CFetchBatch ==
    /\ c_pc = "batch"
    /\ c_i < Len(c_pmids)
    /\ \E outcome \in RequestOutcomes, latency \in c_network.latencies :
           /\ c_requests' = Append(c_requests,
                                   Request(c_now, "efetch", outcome, c_calls))
           /\ c_now' = c_now + latency
           /\ IF outcome = "ok"
              THEN /\ c_articles' = c_articles \o ParsedArticles(Batch(c_pmids, c_i))
                   /\ c_i' = c_i + BatchSize
                   /\ UNCHANGED c_pc
              ELSE IF ClientCatches(outcome)
              THEN /\ c_i' = c_i + BatchSize
                   /\ UNCHANGED <<c_articles, c_pc>>
              ELSE /\ c_pc' = "raised"
                   /\ UNCHANGED <<c_articles, c_i>>
    /\ UNCHANGED <<c_client, c_network, c_last_request_time, c_op, c_calls, c_pmids,
                   c_result>>

\* the end of the loop of fetch_details: return articles
CFetchReturn ==
    /\ c_pc = "batch"
    /\ c_i >= Len(c_pmids)
    /\ c_result' = c_articles
    /\ c_pc' = "returned"
    /\ UNCHANGED <<c_client, c_network, c_now, c_last_request_time, c_requests, c_op,
                   c_calls, c_pmids, c_i, c_articles>>

\* CrossrefClient.search: _throttle(), then the request; an exception the
\* handler catches gives []
CCrossrefSearch ==
    /\ c_pc = "crossref_search"
    /\ LET time == Throttle(c_client, c_now, c_last_request_time)
       IN  /\ c_last_request_time' = time
           /\ \E outcome \in RequestOutcomes, latency \in c_network.latencies,
                 items \in CrossrefItemLists :
                  /\ c_requests' = Append(c_requests,
                                          Request(time, "works", outcome, c_calls))
                  /\ c_now' = time + latency
                  /\ IF outcome # "ok" /\ ~ClientCatches(outcome)
                     THEN /\ c_pc' = "raised"
                          /\ UNCHANGED c_result
                     ELSE /\ c_result' = (IF outcome = "ok" THEN items ELSE <<>>)
                          /\ c_pc' = "returned"
    /\ UNCHANGED <<c_client, c_network, c_op, c_calls, c_pmids, c_i, c_articles>>

-----------------------------------------------------------------------------
(* main: src/tools/generate_evidence.py *)

PipelineEntry(intervention_type, product, max_studies) ==
    [intervention_type |-> intervention_type, product |-> product,
     outcome |-> <<"sleep">>, max_studies |-> max_studies,
     expected_effect_type |-> <<"SMD">>]

PipelineEntries ==
    {PipelineEntry(<<"supplements">>, <<"Magnesium", "-", "glycinate">>, 5),
     PipelineEntry(<<"supplements">>, <<"Magnesium", "-", "glycinate">>, 1),
     PipelineEntry(<<"device">>, <<"magnetic", "-", "bracelet">>, 5)}

\* contents of the file args.phi_config
PipelinePhiConfigs ==
    {<<>>,
     <<PhiRule([intervention_pattern |-> Pattern(TRUE, <<"device", " ", "magnetic">>),
                outcome_pattern |-> Pattern(TRUE, <<"sleep">>),
                action |-> "reject"], 1)>>,
     <<PhiRule([intervention_pattern |-> Pattern(TRUE, <<"supplements">>),
                outcome_pattern |-> Pattern(TRUE, <<>>),
                action |-> "warn"], 1),
       PhiRule([intervention_pattern |-> Pattern(TRUE, <<"magnesium">>),
                outcome_pattern |-> Pattern(TRUE, <<"sleep">>),
                action |-> "reject"], 2)>>}

\* contents of the file args.k_config
PipelineKConfigs ==
    {EmptyKConfig,
     [high_risk_substances |-> <<HighRiskItem(<<"magnesium">>, "flag", 1)>>,
      regulatory_warnings |-> <<>>,
      interactions |-> <<InteractionItem(<<"magnesium">>, "moderate")>>],
     [high_risk_substances |-> <<HighRiskItem(<<"magnesium", "_", "glycinate">>,
                                              "reject", 1)>>,
      regulatory_warnings |-> <<>>,
      interactions |-> <<>>],
     [high_risk_substances |-> <<HighRiskItem(<<"bracelet">>, "warn", 1)>>,
      regulatory_warnings |-> <<RegulatoryItem(<<"magnetic">>, "reject", 1)>>,
      interactions |-> <<>>]}

Metadata(status, detail) == [name |-> "metadata.json", status |-> status, detail |-> detail]

\* the metadata of a complete run has no "status" key
NoStatus == "(no status key)"

File(name) == [name |-> name, status |-> NoStatus, detail |-> <<>>]

\* `if phi_result.verdict == "reject"` and `if k_result.verdict == "reject"`
GateHaltsOnWarn(verdict) == verdict = "warn"

GateHalts(verdict) == verdict = "reject"

\* Step 1: PhiPrecheck(args.phi_config).check_entry(...) is called
PLStartPhi ==
    /\ pl_pc = "start"
    /\ phi_pc = "idle"
    /\ phi_pc' = "loop"
    /\ pl_pc' = "phi"
    /\ pl_stages' = Append(pl_stages, "phi")
    /\ UNCHANGED <<entry, phi_rules, phi_i, phi_evaluated, phi_result, kVars, mVars,
                   xVars, vVars, rVars, cVars, pl_threshold, pl_records, pl_validation,
                   pl_files, pl_exit>>

\* the verdict of the plausibility gate: save the rejection and return 1, or
\* Step 2: KPrecheck(args.k_config).check_entry(entry.product) is called
PLAfterPhi ==
    /\ pl_pc = "phi"
    /\ phi_pc = "done"
    /\ IF GateHalts(phi_result.verdict)
       THEN /\ pl_files' = Append(pl_files,
                                  Metadata("phi_rejected",
                                           <<phi_result.reason, phi_result.matched_rule>>))
            /\ pl_exit' = 1
            /\ pl_pc' = "exit"
            /\ UNCHANGED <<k_pc, pl_stages>>
       ELSE /\ k_pc' = "init"
            /\ pl_pc' = "k"
            /\ pl_stages' = Append(pl_stages, "k")
            /\ UNCHANGED <<pl_files, pl_exit>>
    /\ UNCHANGED <<entry, phiVars, k_config, k_high_risk, k_regulatory, k_i, k_verdict,
                   k_reason, k_signals, k_references, k_evaluated, k_result, mVars,
                   xVars, vVars, rVars, cVars, pl_threshold, pl_records, pl_validation>>

\* the verdict of the safety gate: save the rejection and return 1, or go on
\* to Step 3
PLAfterK ==
    /\ pl_pc = "k"
    /\ k_pc = "done"
    /\ IF GateHalts(k_result.verdict)
       THEN /\ pl_files' = Append(pl_files,
                                  Metadata("k_rejected",
                                           <<k_result.reason, k_result.safety_signals>>))
            /\ pl_exit' = 1
            /\ pl_pc' = "exit"
       ELSE /\ pl_pc' = "search"
            /\ UNCHANGED <<pl_files, pl_exit>>
    /\ UNCHANGED <<entry, phiVars, kVars, mVars, xVars, vVars, cVars, rVars,
                   pl_threshold, pl_stages,
                   pl_records, pl_validation>>

\* Step 3: PubMedClient(email, api_key) is made, without an API key, and
\* pubmed.search_and_fetch(...) is called
PLSearch ==
    /\ pl_pc = "search"
    /\ c_pc = "idle"
    /\ c_client' = PubMedClient(NoneObject)
    /\ c_op' = "search_and_fetch"
    /\ c_calls' = c_calls + 1
    /\ c_pc' = "search"
    /\ pl_pc' = "retrieval"
    /\ pl_stages' = Append(pl_stages, "retrieval")
    /\ UNCHANGED <<entry, phiVars, kVars, mVars, xVars, vVars, rVars, pl_threshold, pl_records,
                   pl_validation, pl_files, pl_exit, c_network, c_now,
                   c_last_request_time, c_requests, c_pmids, c_i, c_articles, c_result>>

\* the candidates of Step 3: with none the run ends, else Step 4:
\* RelevanceMatcher(threshold).match_papers is called
PLAfterSearch ==
    /\ pl_pc = "retrieval"
    /\ c_pc = "returned"
    /\ LET papers == c_result
       IN  /\ m_papers' = papers
           /\ IF papers = <<>>
              THEN /\ pl_files' = Append(pl_files, Metadata("no_papers_found", <<>>))
                   /\ pl_exit' = 0
                   /\ pl_pc' = "exit"
                   /\ UNCHANGED <<m_threshold, m_pc, pl_stages>>
              ELSE /\ pl_stages' = Append(pl_stages, "matching")
                   /\ m_threshold' = pl_threshold
                   /\ m_pc' = "loop"
                   /\ pl_pc' = "match"
                   /\ UNCHANGED <<pl_files, pl_exit>>
    /\ UNCHANGED <<entry, phiVars, kVars, m_i, m_results, xVars, vVars, cVars, rVars,
                   pl_threshold, pl_records, pl_validation>>

\* [r for r in match_results if r.matched]
RECURSIVE SelectMatched(_)
SelectMatched(results) ==
    IF results = <<>> THEN <<>>
    ELSE IF Head(results).result.matched
         THEN <<Head(results)>> \o SelectMatched(Tail(results))
         ELSE SelectMatched(Tail(results))

\* matched_papers[: entry.max_studies]
Truncate(s, n) == SubSeq(s, 1, IF Len(s) < n THEN Len(s) ELSE n)

\* next(p for p in papers if p.pmid == match.pmid)
PaperOf(papers, pmid) ==
    papers[CHOOSE i \in 1..Len(papers) :
               /\ papers[i].pmid = pmid
               /\ \A j \in 1..(i - 1) : papers[j].pmid # pmid]

\* the mock record of Step 5 for the i-th matched paper (i from 0); the
\* articles of the model have no authors and no journal
MockRecord(e, paper, i) ==
    [study_id |-> StrValue(<<"Unknown", ToString(paper.year)>>),
     year |-> IntValue(paper.year),
     design |-> StrValue(<<"randomized controlled trial">>),
     effect_type |-> StrValue(e.expected_effect_type),
     effect_point |-> FloatValue(-5 - i),
     ci_low |-> FloatValue(-8 - i),
     ci_high |-> FloatValue(-2 - i),
     n_treat |-> IntValue(30 + i * 5),
     n_ctrl |-> IntValue(30 + i * 5),
     risk_of_bias |-> StrValue(<<"moderate">>),
     doi |-> OrElse(paper.doi,
                    StrValue(<<"1", "0", ".", "M", "O", "C", "K", "/", paper.pmid>>)),
     journal_id |-> StrValue(<<"Unknown">>)]

\* the matches of Step 4: with none the run ends, else Step 5 builds the
\* records
PLAfterMatch ==
    /\ pl_pc = "match"
    /\ m_pc = "done"
    /\ LET matched_papers == SelectMatched(m_results)
           kept == Truncate(matched_papers, entry.max_studies)
       IN  IF matched_papers = <<>>
           THEN /\ pl_files' = Append(pl_files, Metadata("no_matches", <<>>))
                /\ pl_exit' = 0
                /\ pl_pc' = "exit"
                /\ UNCHANGED <<pl_stages, pl_records>>
           ELSE /\ pl_records' = [i \in 1..Len(kept) |->
                                      MockRecord(entry,
                                                 PaperOf(m_papers, kept[i].result.pmid),
                                                 i - 1)]
                /\ pl_stages' = Append(pl_stages, "extraction")
                /\ pl_pc' = "validate"
                /\ UNCHANGED <<pl_files, pl_exit>>
    /\ UNCHANGED <<entry, phiVars, kVars, mVars, xVars, vVars, cVars, rVars,
                   pl_threshold, pl_validation>>

\* Step 6 and Step 7: EvidenceValidator.validate_dataframe(df) accepts the
\* table or not; an accepted table is saved with its metadata, log and
\* manifest. An exception of the validator is caught nowhere: the
\* interpreter ends the run with exit status 1.
PLValidateAndSave ==
    /\ pl_pc = "validate"
    /\ pl_validation' = ValidateDataframe(pl_records)
    /\ LET is_valid == pl_validation'.all_valid
       IN  IF pl_validation'.raised \/ ~is_valid
           THEN /\ pl_stages' = Append(pl_stages, "validation")
                /\ pl_exit' = 1
                /\ UNCHANGED pl_files
           ELSE /\ pl_stages' = pl_stages \o <<"validation", "write_evidence">>
                /\ pl_files' = pl_files \o <<File("evidence.csv"),
                                             Metadata(NoStatus,
                                                      <<phi_result.verdict,
                                                        k_result.verdict>>),
                                             File("extraction_log.json"),
                                             File("manifest.json")>>
                /\ pl_exit' = 0
    /\ pl_pc' = "exit"
    /\ UNCHANGED <<entry, phiVars, kVars, mVars, xVars, vVars, cVars, rVars,
                   pl_threshold, pl_records>>

\* before Step 6 nothing is validated
NoValidation == DataframeReturned(FALSE, <<>>)

PipelineFresh(threshold, pc) ==
    /\ pl_pc = pc
    /\ pl_threshold = threshold
    /\ pl_stages = <<>>
    /\ pl_records = <<>>
    /\ pl_validation = NoValidation
    /\ pl_files = <<>>
    /\ pl_exit = -1

PipelineIdle == PipelineFresh(DefaultThreshold, "idle")

-----------------------------------------------------------------------------
(* One call of a gate: PhiPrecheck(config).check_entry(...) or               *)
(* KPrecheck(config).check_entry(product)                                     *)

InitGates ==
    /\ entry \in Entries
    /\ \/ /\ phi_rules \in PhiRuleLists(MaxPhiRules)
          /\ PhiFresh(phi_rules, "loop")
          /\ KFresh(EmptyKConfig, "idle")
       \/ /\ PhiIdle
          /\ k_config \in KConfigs(MaxKRules)
          /\ KFresh(k_config, "init")
    /\ MatcherFresh(DefaultThreshold, <<>>, "idle")
    /\ ExtractorIdle
    /\ PipelineIdle
    /\ ValidatorIdle
    /\ ClientIdle
    /\ RunnerIdle

NextGates ==
    \/ PhiEvalRule /\ UNCHANGED <<kVars, mVars, xVars, plVars, vVars, cVars, rVars>>
    \/ PhiNoMatch /\ UNCHANGED <<kVars, mVars, xVars, plVars, vVars, cVars, rVars>>
    \/ KLoad /\ UNCHANGED <<phiVars, mVars, xVars, plVars, vVars, cVars, rVars>>
    \/ KHighRisk /\ UNCHANGED <<phiVars, mVars, xVars, plVars, vVars, cVars, rVars>>
    \/ KHighRiskEnd /\ UNCHANGED <<phiVars, mVars, xVars, plVars, vVars, cVars, rVars>>
    \/ KRegulatory /\ UNCHANGED <<phiVars, mVars, xVars, plVars, vVars, cVars, rVars>>
    \/ KRegulatoryEnd /\ UNCHANGED <<phiVars, mVars, xVars, plVars, vVars, cVars, rVars>>
    \/ KInteraction /\ UNCHANGED <<phiVars, mVars, xVars, plVars, vVars, cVars, rVars>>
    \/ KInteractionEnd /\ UNCHANGED <<phiVars, mVars, xVars, plVars, vVars, cVars, rVars>>
    \/ KFinal /\ UNCHANGED <<phiVars, mVars, xVars, plVars, vVars, cVars, rVars>>

SpecGates == InitGates /\ [][NextGates]_vars

-----------------------------------------------------------------------------
(* One call of RelevanceMatcher(threshold).match_papers(entry, papers) *)

InitMatcher ==
    /\ entry \in MatcherEntries
    /\ PhiIdle
    /\ KFresh(EmptyKConfig, "idle")
    /\ m_threshold \in Thresholds
    /\ m_papers \in PaperLists(MaxPapers)
    /\ MatcherFresh(m_threshold, m_papers, "loop")
    /\ ExtractorIdle
    /\ PipelineIdle
    /\ ValidatorIdle
    /\ ClientIdle
    /\ RunnerIdle

NextMatcher ==
    \/ MatchScorePaper /\ UNCHANGED <<phiVars, kVars, xVars, plVars, vVars, cVars, rVars>>
    \/ MatchSortAndReturn /\ UNCHANGED <<phiVars, kVars, xVars, plVars, vVars, cVars, rVars>>

SpecMatcher == InitMatcher /\ [][NextMatcher]_vars

-----------------------------------------------------------------------------
(* One call of GeminiExtractor(model, temperature, max_retries)            *)
(* .extract_from_abstract(...)                                             *)

InitExtractor ==
    /\ entry = PipelineEntry(<<"supplements">>, <<"Magnesium", "-", "glycinate">>, 5)
    /\ PhiIdle
    /\ KFresh(EmptyKConfig, "idle")
    /\ MatcherFresh(DefaultThreshold, <<>>, "idle")
    /\ x_model_name \in ModelNames
    /\ x_temperature \in Temperatures
    /\ x_max_retries \in 0..MaxRetries
    /\ ExtractorFresh(x_model_name, x_temperature, x_max_retries, "attempt")
    /\ PipelineIdle
    /\ ValidatorIdle
    /\ ClientIdle
    /\ RunnerFresh("extract", 1, <<0>>)

NextExtractor ==
    \/ XAttempt /\ UNCHANGED <<entry, phiVars, kVars, mVars, plVars, vVars, cVars, rVars>>
    \/ XSleep /\ UNCHANGED <<entry, phiVars, kVars, mVars, plVars, vVars, cVars, rVars>>
    \/ XExhausted /\ UNCHANGED <<entry, phiVars, kVars, mVars, plVars, vVars, cVars, rVars>>
    \/ RunnerRecord /\ UNCHANGED <<entry, phiVars, kVars, mVars, xVars, plVars, vVars, cVars>>
    \/ RunnerSave /\ UNCHANGED <<entry, phiVars, kVars, mVars, xVars, plVars, vVars, cVars>>

SpecExtractor == InitExtractor /\ [][NextExtractor]_vars

-----------------------------------------------------------------------------
(* One run of generate_evidence.main for an entry of the catalog *)

InitPipeline ==
    /\ entry \in PipelineEntries
    /\ phi_rules \in PipelinePhiConfigs
    /\ phi_pc = "idle"
    /\ phi_i = 1
    /\ phi_evaluated = <<>>
    /\ phi_result = NoResult
    /\ k_config \in PipelineKConfigs
    /\ KFresh(k_config, "idle")
    /\ MatcherFresh(DefaultThreshold, <<>>, "idle")
    /\ ExtractorIdle
    /\ pl_threshold \in Thresholds
    /\ PipelineFresh(pl_threshold, "start")
    /\ ValidatorIdle
    /\ ClientFresh(PubMedClient(NoneObject),
                   Network({TicksPerSecond}, MaxPapers), "idle")
    /\ RunnerIdle

NextPipeline ==
    \/ PLStartPhi
    \/ PhiEvalRule /\ UNCHANGED <<kVars, mVars, xVars, plVars, vVars, cVars, rVars>>
    \/ PhiNoMatch /\ UNCHANGED <<kVars, mVars, xVars, plVars, vVars, cVars, rVars>>
    \/ PLAfterPhi
    \/ KLoad /\ UNCHANGED <<phiVars, mVars, xVars, plVars, vVars, cVars, rVars>>
    \/ KHighRisk /\ UNCHANGED <<phiVars, mVars, xVars, plVars, vVars, cVars, rVars>>
    \/ KHighRiskEnd /\ UNCHANGED <<phiVars, mVars, xVars, plVars, vVars, cVars, rVars>>
    \/ KRegulatory /\ UNCHANGED <<phiVars, mVars, xVars, plVars, vVars, cVars, rVars>>
    \/ KRegulatoryEnd /\ UNCHANGED <<phiVars, mVars, xVars, plVars, vVars, cVars, rVars>>
    \/ KInteraction /\ UNCHANGED <<phiVars, mVars, xVars, plVars, vVars, cVars, rVars>>
    \/ KInteractionEnd /\ UNCHANGED <<phiVars, mVars, xVars, plVars, vVars, cVars, rVars>>
    \/ KFinal /\ UNCHANGED <<phiVars, mVars, xVars, plVars, vVars, cVars, rVars>>
    \/ PLAfterK
    \/ PLSearch
    \/ CSearch /\ UNCHANGED <<entry, phiVars, kVars, mVars, xVars, plVars, vVars, rVars>>
    \/ CFetchDetails /\ UNCHANGED <<entry, phiVars, kVars, mVars, xVars, plVars, vVars, rVars>>
    \/ CFetchBatch /\ UNCHANGED <<entry, phiVars, kVars, mVars, xVars, plVars, vVars, rVars>>
    \/ CFetchReturn /\ UNCHANGED <<entry, phiVars, kVars, mVars, xVars, plVars, vVars, rVars>>
    \/ PLAfterSearch
    \/ MatchScorePaper /\ UNCHANGED <<phiVars, kVars, xVars, plVars, vVars, cVars, rVars>>
    \/ MatchSortAndReturn /\ UNCHANGED <<phiVars, kVars, xVars, plVars, vVars, cVars, rVars>>
    \/ PLAfterMatch
    \/ PLValidateAndSave

SpecPipeline == InitPipeline /\ [][NextPipeline]_vars

-----------------------------------------------------------------------------
(* One call of EvidenceValidator.validate_record(record) *)

InitValidator ==
    /\ entry = PipelineEntry(<<"supplements">>, <<"Magnesium", "-", "glycinate">>, 5)
    /\ PhiIdle
    /\ KFresh(EmptyKConfig, "idle")
    /\ MatcherFresh(DefaultThreshold, <<>>, "idle")
    /\ ExtractorIdle
    /\ PipelineIdle
    /\ v_record \in RecordsWithin(MaxDeviations)
    /\ ValidatorFresh(v_record, "required")
    /\ ClientIdle
    /\ RunnerIdle

NextValidator ==
    \/ VRequired /\ UNCHANGED <<entry, phiVars, kVars, mVars, xVars, plVars, cVars, rVars>>
    \/ VTypeChecks /\ UNCHANGED <<entry, phiVars, kVars, mVars, xVars, plVars, cVars, rVars>>
    \/ VEnumChecks /\ UNCHANGED <<entry, phiVars, kVars, mVars, xVars, plVars, cVars, rVars>>
    \/ VDoi /\ UNCHANGED <<entry, phiVars, kVars, mVars, xVars, plVars, cVars, rVars>>

SpecValidator == InitValidator /\ [][NextValidator]_vars

-----------------------------------------------------------------------------
(* A sequence of calls on one network client: a PubMedClient without or     *)
(* with an API key, or a CrossrefClient                                      *)

\* a request takes no time to speak of, or a second
Latencies == {0, TicksPerSecond}

InitClient ==
    /\ entry = PipelineEntry(<<"supplements">>, <<"Magnesium", "-", "glycinate">>, 5)
    /\ PhiIdle
    /\ KFresh(EmptyKConfig, "idle")
    /\ MatcherFresh(DefaultThreshold, <<>>, "idle")
    /\ ExtractorIdle
    /\ PipelineIdle
    /\ ValidatorIdle
    /\ c_client \in Clients
    /\ ClientFresh(c_client, Network(Latencies, 0), "ready")
    /\ RunnerIdle

NextClient ==
    \/ CCall /\ UNCHANGED <<entry, phiVars, kVars, mVars, xVars, plVars, vVars, rVars>>
    \/ CSearch /\ UNCHANGED <<entry, phiVars, kVars, mVars, xVars, plVars, vVars, rVars>>
    \/ CFetchDetails /\ UNCHANGED <<entry, phiVars, kVars, mVars, xVars, plVars, vVars, rVars>>
    \/ CFetchBatch /\ UNCHANGED <<entry, phiVars, kVars, mVars, xVars, plVars, vVars, rVars>>
    \/ CFetchReturn /\ UNCHANGED <<entry, phiVars, kVars, mVars, xVars, plVars, vVars, rVars>>
    \/ CCrossrefSearch /\ UNCHANGED <<entry, phiVars, kVars, mVars, xVars, plVars,
                                      vVars, rVars>>

SpecClient == InitClient /\ [][NextClient]_vars

-----------------------------------------------------------------------------
(* Step 4 of the extraction runner over the rows of abstracts_df, with the   *)
(* extractor GeminiExtractor(api_key, model="gemini-2.5-flash-lite",         *)
(* temperature=0.0)                                                           *)

InitRunner ==
    /\ entry = PipelineEntry(<<"supplements">>, <<"Magnesium", "-", "glycinate">>, 5)
    /\ PhiIdle
    /\ KFresh(EmptyKConfig, "idle")
    /\ MatcherFresh(DefaultThreshold, <<>>, "idle")
    /\ ExtractorFresh(DefaultModel, 0, DefaultMaxRetries, "idle")
    /\ PipelineIdle
    /\ ValidatorIdle
    /\ ClientIdle
    /\ r_studies \in 1..MaxStudies
    /\ RunnerFresh("loop", r_studies, <<>>)

\* The runner's extractor has the default max_retries of 3, with which every
\* call returns from inside the retry loop: the return after the loop
\* (XExhausted) is never enabled here and is not a step of the runner.
NextRunner ==
    \/ RunnerExtract /\ UNCHANGED <<entry, phiVars, kVars, mVars, plVars, vVars, cVars>>
    \/ XAttempt /\ UNCHANGED <<entry, phiVars, kVars, mVars, plVars, vVars, cVars, rVars>>
    \/ XSleep /\ UNCHANGED <<entry, phiVars, kVars, mVars, plVars, vVars, cVars, rVars>>
    \/ RunnerRecord /\ UNCHANGED <<entry, phiVars, kVars, mVars, xVars, plVars, vVars, cVars>>
    \/ RunnerSave /\ UNCHANGED <<entry, phiVars, kVars, mVars, xVars, plVars, vVars, cVars>>

SpecRunner == InitRunner /\ [][NextRunner]_vars

-----------------------------------------------------------------------------
(* Claims on the gates, checked under SpecGates *)

\* A rule of the plausibility gate matches an entry, as the gate's contract
\* states it: both patterns are well-formed and occur, letter case ignored,
\* in "{intervention_type} {product}" and in the outcome.
OccursIgnoringCase(p, text) ==
    /\ p.valid
    /\ \E off \in 0..(Len(text) - Len(p.s)) :
           \A k \in 1..Len(p.s) : LowerAtom(text[off + k]) = LowerAtom(p.s[k])

RuleApplies(rule, e) ==
    /\ OccursIgnoringCase(rule.intervention_pattern,
                          e.intervention_type \o <<" ">> \o e.product)
    /\ OccursIgnoringCase(rule.outcome_pattern, e.outcome)

ApplicableRules == {i \in 1..Len(phi_rules) : RuleApplies(phi_rules[i], entry)}

FirstApplicable == CHOOSE i \in ApplicableRules : \A j \in ApplicableRules : i <= j

UpTo(n) == [i \in 1..n |-> i]

\* C1: PhiPrecheck.check_entry evaluates the rules in list order; the first
\* matching rule decides the result (its action as verdict, its reason) and no
\* later rule is evaluated; with no matching rule every rule is evaluated and
\* the verdict is pass.
C1_PhiFirstMatchWins ==
    phi_pc = "done" =>
        IF ApplicableRules = {}
        THEN /\ phi_result.verdict = "pass"
             /\ phi_evaluated = UpTo(Len(phi_rules))
        ELSE /\ phi_result.verdict = phi_rules[FirstApplicable].action
             /\ phi_result.reason = <<phi_rules[FirstApplicable].reason>>
             /\ phi_evaluated = UpTo(FirstApplicable)

\* C1 witness: a warn rule matches before a reject rule that matches too, and
\* the gate has returned warn.
C1_Witness ==
    /\ phi_pc = "done"
    /\ phi_result.verdict = "warn"
    /\ \E i, j \in ApplicableRules :
           i < j /\ phi_rules[i].action = "warn" /\ phi_rules[j].action = "reject"

\* The rule a test of the K scan was made on, and the reason the gate formats
\* for its rejection.
TestedRule(t) ==
    IF t.category = "high_risk" THEN k_high_risk[t.index].value
    ELSE IF t.category = "regulatory" THEN k_regulatory[t.index].value
    ELSE k_config.interactions[t.index]

TestedRejects(t) ==
    /\ t.matched
    /\ t.category \in {"high_risk", "regulatory"}
    /\ TestedRule(t).action = "reject"

RejectReasonOf(t) ==
    IF t.category = "high_risk"
    THEN <<"Prohibited substance: ", TestedRule(t).reason>>
    ELSE <<TestedRule(t).agency, " warning: ", TestedRule(t).warning>>

\* C2: in both gates, once a rule with action reject matches, it is the last
\* rule the gate evaluates, and the gate returns verdict reject with the
\* reason of exactly that rule (in the K gate as the gate words it:
\* "Prohibited substance: <reason>", "<agency> warning: <warning>").
C2_RejectStopsTheScan ==
    /\ \A k \in 1..Len(phi_evaluated) :
           LET rule == phi_rules[phi_evaluated[k]]
           IN  (RuleApplies(rule, entry) /\ rule.action = "reject") =>
                   /\ k = Len(phi_evaluated)
                   /\ phi_pc = "done"
                   /\ phi_result.verdict = "reject"
                   /\ phi_result.reason = <<rule.reason>>
    /\ \A k \in 1..Len(k_evaluated) :
           TestedRejects(k_evaluated[k]) =>
               /\ k = Len(k_evaluated)
               /\ k_pc = "done"
               /\ k_result.verdict = "reject"
               /\ k_result.reason = RejectReasonOf(k_evaluated[k])

\* C2 witness: the K gate has rejected on a regulatory warning after a
\* high-risk rule had raised the verdict, with rules left unscanned.
C2_Witness ==
    /\ k_pc = "done"
    /\ k_result.verdict = "reject"
    /\ k_evaluated[Len(k_evaluated)].category = "regulatory"
    /\ \E k \in 1..Len(k_evaluated) :
           /\ k_evaluated[k].matched
           /\ k_evaluated[k].category = "high_risk"
    /\ Len(k_config.interactions) > 0

\* the high-risk entries of the configuration whose name the product contains
ConfiguredRejects ==
    {i \in 1..Len(k_config.high_risk_substances) :
        /\ k_config.high_risk_substances[i].action = "reject"
        /\ Contains(Normalize(entry.product), k_config.high_risk_substances[i].name)}

\* C3: KPrecheck.check_entry returns reject for every product whose normalized
\* name contains the name of a configured high-risk substance with action
\* reject.
C3_ConfiguredRejectIsRejected ==
    (k_pc = "done" /\ ConfiguredRejects # {}) => k_result.verdict = "reject"

NoRuleNameInProduct ==
    /\ \A i \in 1..Len(k_config.high_risk_substances) :
           ~Contains(Normalize(entry.product), k_config.high_risk_substances[i].name)
    /\ \A i \in 1..Len(k_config.regulatory_warnings) :
           ~Contains(Normalize(entry.product), k_config.regulatory_warnings[i].substance)
    /\ \A i \in 1..Len(k_config.interactions) :
           ~Contains(Normalize(entry.product), k_config.interactions[i].supplement)

\* C4: for a product whose normalized name contains no rule's name, the K
\* gate returns pass with no signal, no reason and no reference.
C4_NoMatchPasses ==
    (k_pc = "done" /\ NoRuleNameInProduct) =>
        k_result = KPrecheckResult("pass", <<>>, <<>>, <<>>)

\* C4 witness: a configuration with a rule in every category, none of which
\* names the product, has been scanned to the end.
C4_Witness ==
    /\ k_pc = "done"
    /\ NoRuleNameInProduct
    /\ Len(k_config.high_risk_substances) > 0
    /\ Len(k_config.regulatory_warnings) > 0
    /\ Len(k_config.interactions) > 0
    /\ Len(k_evaluated) = 3

Severity(v) ==
    CASE v = "pass" -> 0
      [] v = "note" -> 1
      [] v = "warn" -> 2
      [] v = "flag" -> 3
      [] v = "reject" -> 4

\* C5: during one scan of the K gate the running verdict never decreases in
\* the order pass < note < warn < flag < reject.
C5_VerdictNeverDecreases ==
    [][Severity(k_verdict') >= Severity(k_verdict)]_vars

\* C5 witness: a warn rule has matched after a flag rule had raised the
\* verdict, and the scan has gone on to the end.
C5_Witness ==
    /\ k_pc = "done"
    /\ k_result.verdict = "flag"
    /\ \E i, j \in 1..Len(k_evaluated) :
           /\ i < j
           /\ k_evaluated[i].matched /\ k_evaluated[j].matched
           /\ k_evaluated[i].category = "high_risk"
           /\ k_evaluated[j].category = "high_risk"
           /\ TestedRule(k_evaluated[i]).action = "flag"
           /\ TestedRule(k_evaluated[j]).action = "warn"

-----------------------------------------------------------------------------
(* Claims on the relevance matcher, checked under SpecMatcher *)

Scores(r) ==
    <<r.relevance_score, r.intervention_match, r.outcome_match, r.design_match,
      r.population_match>>

\* C7: the score and sub-scores _score_paper gives a candidate depend only on
\* the entry's product and outcome and on the candidate's title and abstract:
\* two candidates of one call with the same title and abstract get the same
\* scores wherever they stand in the list and whatever was scored before
\* them, and every relevance_score lies in [0,1].
C7_ScoreIsPureAndInRange ==
    \A a, b \in 1..Len(m_results) :
        LET ra == m_results[a]
            rb == m_results[b]
        IN  /\ 0 <= ra.result.relevance_score
            /\ ra.result.relevance_score <= ScoreUnit
            /\ (/\ m_papers[ra.candidate].title = m_papers[rb.candidate].title
                /\ m_papers[ra.candidate].abstract = m_papers[rb.candidate].abstract)
               => Scores(ra.result) = Scores(rb.result)

\* C7 witness: the same study has been scored first and last in a list of
\* three, with another study in between, and scored above zero.
C7_Witness ==
    /\ Len(m_results) = 3
    /\ m_pc = "loop"
    /\ m_papers[1].title = m_papers[3].title
    /\ m_papers[1].abstract = m_papers[3].abstract
    /\ m_papers[1].pmid # m_papers[3].pmid
    /\ m_papers[2].title # m_papers[1].title
    /\ m_results[1].result.relevance_score > 2 * PopulationMatch

\* C8: match_papers returns exactly one MatchResult per candidate, in
\* non-increasing order of relevance_score, candidates of equal score in the
\* order they had in the input.
C8_SortedStableOnePerCandidate ==
    m_pc = "done" =>
        /\ Len(m_results) = Len(m_papers)
        /\ {m_results[i].candidate : i \in 1..Len(m_results)} = 1..Len(m_papers)
        /\ \A i \in 1..Len(m_results) :
               m_results[i].result.pmid = m_papers[m_results[i].candidate].pmid
        /\ \A i, j \in 1..Len(m_results) :
               i < j =>
                   /\ m_results[i].result.relevance_score
                          >= m_results[j].result.relevance_score
                   /\ (m_results[i].result.relevance_score
                          = m_results[j].result.relevance_score)
                      => m_results[i].candidate < m_results[j].candidate

\* C8 witness: a returned list in which the sort has moved a candidate ahead
\* of an earlier one and has kept two candidates of equal score in input order.
C8_Witness ==
    /\ m_pc = "done"
    /\ \E i, j \in 1..Len(m_results) :
           /\ i < j
           /\ m_results[i].candidate > m_results[j].candidate
    /\ \E i, j \in 1..Len(m_results) :
           /\ i < j
           /\ m_results[i].result.relevance_score = m_results[j].result.relevance_score
           /\ m_results[i].result.pmid # m_results[j].result.pmid

\* C9: a candidate whose text holds every product keyword and every outcome
\* keyword (intervention_match = 1.0, outcome_match = 1.0) scores at least
\* 0.7 whatever its design_match, population_match being 0.5, and is matched
\* at the default threshold.
C9_FullKeywordMatchReachesThreshold ==
    \A i \in 1..Len(m_results) :
        LET r == m_results[i].result
        IN  (r.intervention_match = OverlapScale /\ r.outcome_match = OverlapScale) =>
                /\ r.population_match = PopulationMatch
                /\ r.relevance_score >= DefaultThreshold
                /\ (m_threshold = DefaultThreshold => r.matched)

\* C9 witness: a paper holding all the keywords of the entry and no design
\* keyword at all has been scored at the default threshold: it scores exactly
\* 0.7 and is matched.
C9_Witness ==
    /\ m_threshold = DefaultThreshold
    /\ \E i \in 1..Len(m_results) :
           LET r == m_results[i].result
           IN  /\ r.intervention_match = OverlapScale
               /\ r.outcome_match = OverlapScale
               /\ r.design_match = 0
               /\ r.relevance_score = DefaultThreshold
               /\ r.matched

-----------------------------------------------------------------------------
(* Claims on the extraction retry loop, checked under SpecExtractor *)

Calls == {k \in 1..Len(x_log) : x_log[k].type = "call"}

\* C10: one extract call makes at most max_retries model calls, and a failed
\* attempt i that is followed by another attempt is followed by exactly one
\* sleep, of 2^i seconds, before attempt i+1 is issued.
C10_AttemptsBoundedBackoffExponential ==
    /\ Cardinality(Calls) <= x_max_retries
    /\ \A k \in 1..Len(x_log) :
           /\ (x_log[k].type = "call" /\ k = 1) => x_log[k].attempt = 0
           /\ (x_log[k].type = "call" /\ k > 1) =>
                  /\ k > 2
                  /\ x_log[k - 1].type = "sleep"
                  /\ x_log[k - 2].type = "call"
                  /\ ~x_log[k - 2].ok
                  /\ x_log[k].attempt = x_log[k - 2].attempt + 1
                  /\ x_log[k - 1].seconds = 2 ^ x_log[k - 2].attempt
           /\ x_log[k].type = "sleep" => (k > 1 /\ x_log[k - 1].type = "call")

\* C10 witness: a call configured with three retries has made all three
\* attempts, after sleeps of 1 and 2 seconds, and has returned a failure.
C10_Witness ==
    /\ x_pc = "done"
    /\ x_max_retries = 3
    /\ Cardinality(Calls) = 3
    /\ Len(x_log) = 5
    /\ x_log[2].seconds = 1
    /\ x_log[4].seconds = 2
    /\ ~x_result.success

\* C11: every generate_content call is issued with temperature 0, whatever
\* temperature the constructor was given.
C11_EveryCallAtTemperatureZero ==
    \A k \in Calls : x_log[k].temperature = 0

FailedCalls == {k \in Calls : ~x_log[k].ok}

\* C12: no exception escapes extract_from_abstract, and every failed attempt,
\* whatever it failed with, is handled alike: when attempts remain the
\* extractor backs off and goes on to the next attempt; when it was the last
\* of max_retries the call returns a failure whose error is the error of that
\* attempt.
C12_FailuresRetriedThenSurfaced ==
    /\ x_pc # "raised"
    /\ \A k \in FailedCalls :
           IF x_log[k].attempt < x_max_retries - 1
           THEN IF k = Len(x_log)
                THEN x_pc = "sleep" /\ x_attempt = x_log[k].attempt
                ELSE /\ x_log[k + 1].type = "sleep"
                     /\ x_log[k + 1].seconds = Backoff(x_log[k].attempt)
                     /\ k + 1 = Len(x_log) =>
                            (x_pc = "attempt" /\ x_attempt = x_log[k].attempt + 1)
                     /\ k + 1 < Len(x_log) =>
                            (x_log[k + 2].type = "call"
                             /\ x_log[k + 2].attempt = x_log[k].attempt + 1)
           ELSE /\ k = Len(x_log)
                /\ x_pc = "done"
                /\ ~x_result.success
                /\ x_result.error = x_log[k].error
                /\ x_result.error # <<"Max retries exceeded">>

\* C12 witness: with two retries, a text that is not JSON was retried and the
\* second attempt failed validation; the call has returned that last error.
C12_Witness ==
    /\ x_pc = "done"
    /\ x_max_retries = 2
    /\ Len(x_log) = 3
    /\ x_log[1].error = <<"JSON parse error: ", "Expecting value">>
    /\ x_log[3].error = <<"Extraction failed validation">>
    /\ ~x_result.success
    /\ x_result.error = <<"Extraction failed validation">>

\* C20: the log the extraction runner writes holds one record for each
\* attempt: for a study whose extraction took k attempts, k records.
C20_OneLogRecordPerAttempt ==
    (r_pc = "recorded" /\ Cardinality(Calls) >= 1) =>
        Cardinality({j \in 1..Len(r_extractions) :
                         r_extractions[j].study_id = StudyId}) = Cardinality(Calls)

-----------------------------------------------------------------------------
(* Claims on the evidence validator, checked under SpecValidator *)

\* the required fields the record lacks or has as None
MissingFields(record) ==
    {Required[f] : f \in {g \in 1..Len(Required) : record[Required[g]].kind \in {"absent", "none"}}}

IsNumber(value) == value.kind \in {"int", "float"}

\* a record as the claim C13 describes it: the twelve fields present and
\* non-null, the year an integer from 1990 to 2025, the effect and its interval
\* numbers, positive integer sample sizes, an effect type and a risk of bias
\* of the lists, a doi that is a string starting with "10."
WellFormed(record) ==
    /\ MissingFields(record) = {}
    /\ record["year"].kind = "int"
    /\ 1990 <= record["year"].n /\ record["year"].n <= 2025
    /\ IsNumber(record["effect_point"])
    /\ IsNumber(record["ci_low"])
    /\ IsNumber(record["ci_high"])
    /\ record["n_treat"].kind = "int" /\ record["n_treat"].n > 0
    /\ record["n_ctrl"].kind = "int" /\ record["n_ctrl"].n > 0
    /\ record["effect_type"].kind = "str"
    /\ record["effect_type"].s \in {<<"SMD">>, <<"MD">>, <<"OR">>, <<"RR">>, <<"HR">>}
    /\ record["risk_of_bias"].kind = "str"
    /\ record["risk_of_bias"].s \in {<<"low">>, <<"moderate">>, <<"high">>, <<"unclear">>}
    /\ record["doi"].kind = "str"
    /\ Len(record["doi"].s) >= 3
    /\ SubSeq(record["doi"].s, 1, 3) = <<"1", "0", ".">>

\* the integer a value is or, for a string, spells
IsInteger(value) ==
    value.kind = "int" \/ (value.kind = "str" /\ IsIntLiteral(value.s))

IntegerOf(value) ==
    IF value.kind = "int" THEN value.n ELSE IntLiteralNumber(value.s)

Accepted == v_pc = "done" /\ ~v_result.raised /\ v_result.is_valid

C14_MissingFieldsShortCircuit ==
    (v_pc = "done" /\ MissingFields(v_record) # {}) =>
        /\ ~v_result.raised
        /\ ~v_result.is_valid
        /\ Len(v_result.errors) = Cardinality(MissingFields(v_record))
        /\ \A i \in 1..Len(v_result.errors) :
               /\ v_result.errors[i].text = "Missing required field: "
               /\ v_result.errors[i].field \in MissingFields(v_record)
        /\ {v_result.errors[i].field : i \in 1..Len(v_result.errors)}
               = MissingFields(v_record)
        /\ v_checks = <<"required">>
        /\ v_warnings = <<>>

\* C14 witness: a record without doi, with a None year, has been refused
\* with the two messages of its missing fields.
C14_Witness ==
    /\ v_pc = "done"
    /\ v_record["doi"] = Absent
    /\ v_record["year"] = NoneObject
    /\ Len(v_result.errors) = 2
    /\ v_result.errors[1].field = "year"
    /\ v_result.errors[2].field = "doi"

\* C15: a record that satisfies every other check is returned valid with no
\* error whether or not ci_low <= ci_high; the inverted interval is only
\* logged as a warning.
C15_CiOrderIsOnlyAWarning ==
    (v_pc = "done" /\ WellFormed(v_record)) =>
        /\ ~v_result.raised
        /\ v_result.is_valid
        /\ v_result.errors = <<>>
        /\ (v_record["ci_low"].kind = "float" /\ v_record["ci_high"].kind = "float") =>
               ((v_warnings # <<>>) <=> (v_record["ci_low"].n > v_record["ci_high"].n))

\* C15 witness: a record with ci_low = 0.3 above ci_high = -0.2 has been
\* accepted, with a warning in the log.
C15_Witness ==
    /\ Accepted
    /\ v_record["ci_low"] = FloatValue(3)
    /\ v_record["ci_high"] = FloatValue(-2)
    /\ v_warnings # <<>>
    /\ v_result.errors = <<>>

-----------------------------------------------------------------------------
(* Claims on the per-entry pipeline, checked under SpecPipeline *)

StagesRun == Range(pl_stages)

\* C6: once a gate returns reject no later stage of main runs: after a reject
\* of the plausibility gate nothing but that gate has run, after a reject of
\* the safety gate nothing but the two gates; and when main ends after a
\* reject, the only file saved is a metadata record with status phi_rejected,
\* respectively k_rejected.
C6_RejectHaltsThePipeline ==
    /\ phi_result.verdict = "reject" =>
           /\ StagesRun = {"phi"}
           /\ k_pc = "idle" /\ m_pc = "idle"
           /\ pl_pc = "exit" =>
                  /\ Len(pl_files) = 1
                  /\ pl_files[1].name = "metadata.json"
                  /\ pl_files[1].status = "phi_rejected"
    /\ k_result.verdict = "reject" =>
           /\ StagesRun = {"phi", "k"}
           /\ m_pc = "idle"
           /\ pl_pc = "exit" =>
                  /\ Len(pl_files) = 1
                  /\ pl_files[1].name = "metadata.json"
                  /\ pl_files[1].status = "k_rejected"

\* C6 witness: main has ended on a reject of the safety gate, after the
\* plausibility gate had warned.
C6_Witness ==
    /\ pl_pc = "exit"
    /\ phi_result.verdict = "warn"
    /\ k_result.verdict = "reject"
    /\ pl_exit = 1

\* the indices (from 0) of the rows of the table that validate_record rejects
InvalidRows ==
    {idx \in 0..(Len(pl_records) - 1) : ~ValidateRecord(pl_records[idx + 1]).is_valid}

FilesWritten == {pl_files[i].name : i \in 1..Len(pl_files)}

\* C16: validate_dataframe reports all_valid exactly when no row of the table
\* is invalid, and its second result maps the index of each invalid row, and
\* of no other row, to the errors validate_record gives for that row; when a
\* row is invalid main ends with exit status 1 and evidence.csv is not among
\* the files written.
C16_InvalidRowsReportedAndNothingWritten ==
    (pl_pc = "exit" /\ "validation" \in StagesRun) =>
        /\ pl_validation.all_valid <=> (InvalidRows = {})
        /\ DOMAIN pl_validation.all_errors = InvalidRows
        /\ \A idx \in InvalidRows :
               pl_validation.all_errors[idx] = ValidateRecord(pl_records[idx + 1]).errors
        /\ (InvalidRows # {}) =>
               /\ pl_exit = 1
               /\ "evidence.csv" \notin FilesWritten
               /\ "write_evidence" \notin StagesRun

\* C16 witness: main has ended on a table of two rows of which the second,
\* built from an article without a publication year, is the only invalid one.
C16_Witness ==
    /\ pl_pc = "exit"
    /\ "validation" \in StagesRun
    /\ Len(pl_records) = 2
    /\ InvalidRows = {1}
    /\ pl_records[2]["year"] = IntValue(NoYear)
    /\ pl_validation.all_errors[1][1].field = "year"
    /\ pl_exit = 1

\* the requests of the call in progress, or of the last call, and among
\* them the batch requests of fetch_details
IsOfThisCall(request) == request.call = c_calls
CallRequests == SelectSeq(c_requests, IsOfThisCall)
IsEfetch(request) == request.api = "efetch"
BatchRequests == SelectSeq(CallRequests, IsEfetch)
SearchRaised == \E k \in 1..Len(CallRequests) :
                    CallRequests[k].api = "esearch" /\ CallRequests[k].raised
SomeRequestRaised == \E k \in 1..Len(CallRequests) : CallRequests[k].raised

\* the articles of the batches, from the k-th on, whose request did not raise
RECURSIVE ArticlesOfAnsweredBatches(_)
ArticlesOfAnsweredBatches(k) ==
    IF k > Len(BatchRequests) THEN <<>>
    ELSE (IF BatchRequests[k].raised THEN <<>>
          ELSE ParsedArticles(Batch(c_pmids, (k - 1) * BatchSize)))
         \o ArticlesOfAnsweredBatches(k + 1)

\* main has ended on an empty candidate list: the last file saved is the
\* metadata record with status no_papers_found, and neither matching nor
\* extraction nor validation has run
EndedWithNoPapers ==
    /\ pl_files # <<>>
    /\ pl_files[Len(pl_files)] = Metadata("no_papers_found", <<>>)
    /\ pl_exit = 0
    /\ StagesRun \cap {"matching", "extraction", "validation", "write_evidence"} = {}
    /\ m_pc = "idle"
    /\ pl_records = <<>>

\* C17 as stated: no exception escapes the client; a call in which the search
\* request or a detail-fetch request raised returns the empty list; and main
\* then ends on no_papers_found without matching, extraction or validation.
C17_AnyFailedRequestGivesNoCandidates ==
    /\ c_pc # "raised"
    /\ (c_pc = "returned" /\ SomeRequestRaised) => c_result = <<>>
    /\ (pl_pc = "exit" /\ "retrieval" \in StagesRun /\ SomeRequestRaised) =>
           EndedWithNoPapers

\* C17, amended: no exception escapes search, fetch_details or
\* search_and_fetch; a call in which the search request raised, or every
\* detail-fetch request raised, returns the empty list, and a fetch of which
\* only some batch requests raised returns the articles of the other
\* batches; when the list main gets is empty, main persists a metadata record
\* with status no_papers_found and ends without matching, extraction or
\* validation.
C17_FailedRetrievalGivesNoCandidates ==
    /\ c_pc # "raised"
    /\ (c_pc = "returned" /\ c_op = "search" /\ SearchRaised) => c_result = <<>>
    /\ (c_pc = "returned" /\ c_op \in {"fetch_details", "search_and_fetch"}) =>
           /\ c_result = ArticlesOfAnsweredBatches(1)
           /\ (SearchRaised \/ \A k \in 1..Len(BatchRequests) : BatchRequests[k].raised)
                  => c_result = <<>>
    /\ (pl_pc = "exit" /\ "retrieval" \in StagesRun /\ c_result = <<>>) =>
           EndedWithNoPapers

\* C17 witness: main has ended on no_papers_found after a search that found
\* more than batch_size ids and a fetch whose two batch requests both raised.
C17_Witness ==
    /\ pl_pc = "exit"
    /\ Len(c_pmids) > BatchSize
    /\ Len(BatchRequests) = 2
    /\ BatchRequests[1].raised /\ BatchRequests[2].raised
    /\ c_result = <<>>
    /\ EndedWithNoPapers

StatusTags == {"phi_rejected", "k_rejected", "no_papers_found", "no_matches", "ok"}

\* C18: every metadata record main has saved carries one of the five status
\* tags, and the record saved with the evidence table of a successful run
\* carries ok.
C18_EveryMetadataRecordHasAStatusTag ==
    \A i \in 1..Len(pl_files) :
        pl_files[i].name = "metadata.json" =>
            /\ pl_files[i].status \in StatusTags
            /\ ("evidence.csv" \in FilesWritten) => pl_files[i].status = "ok"

-----------------------------------------------------------------------------
(* Claims on the network clients, checked under SpecClient *)

\* C19: any two consecutive requests of the client, the successive batch
\* requests of one fetch_details call among them, are at least the minimum
\* interval 1/rate_limit apart.
C19_ConsecutiveRequestsArePaced ==
    \A k \in 1..(Len(c_requests) - 1) :
        c_requests[k + 1].time - c_requests[k].time >= MinInterval(c_client)

-----------------------------------------------------------------------------
(* Claims on the extraction runner, checked under SpecRunner *)

RecordOfStudy(i) == r_extractions[i + 1]

\* C21: a failure outcome for one study does not end the loop over the
\* studies: when the runner has written its list, extract_from_abstract has
\* been called once for every row, in order; the record of a study whose
\* extraction failed has no data, and the record of a study whose extraction
\* succeeded has the validated data of its result.
C21_FailedStudyDoesNotAbortTheOthers ==
    /\ r_called = [j \in 1..Len(r_called) |-> j - 1]
    /\ r_i <= r_studies
    /\ Len(r_extractions) = r_i
    /\ r_pc = "recorded" =>
           /\ Len(r_called) = r_studies
           /\ Len(r_extractions) = r_studies
    /\ \A i \in 0..(Len(r_extractions) - 1) :
           /\ RecordOfStudy(i).study_id = StudyIdOf(i)
           /\ ~RecordOfStudy(i).success =>
                  /\ ~RecordOfStudy(i).has_data
                  /\ RecordOfStudy(i).data = NoData
                  /\ RecordOfStudy(i).error # <<>>
           /\ RecordOfStudy(i).success =>
                  /\ RecordOfStudy(i).has_data
                  /\ ValidateExtraction(RecordOfStudy(i).data)

\* C21 witness: the runner has written the list of two studies, of which the
\* first failed in all its attempts and the second succeeded.
C21_Witness ==
    /\ r_pc = "recorded"
    /\ r_studies = 2
    /\ ~RecordOfStudy(0).success
    /\ RecordOfStudy(1).success
    /\ RecordOfStudy(1).data = CompleteData

-----------------------------------------------------------------------------
(* Claims on the escalations of the K gate, checked under SpecGates *)

\* the tests of the scan so far that matched, by category
MatchedTests(category) ==
    {k \in 1..Len(k_evaluated) :
        k_evaluated[k].matched /\ k_evaluated[k].category = category}

\* the matched high-risk substances with action flag or warn, and the matched
\* interactions of severity major, as positions of the scan
MatchedFlagOrWarn ==
    {k \in MatchedTests("high_risk") :
        TestedRule(k_evaluated[k]).action \in {"flag", "warn"}}
MatchedMajor ==
    {k \in MatchedTests("interactions") :
        TestedRule(k_evaluated[k]).severity = "major"}
Earliest(S) == CHOOSE k \in S : \A j \in S : k <= j

\* C22: as long as no rule rejects, the running verdict and reason of the K
\* gate are those of the first matching high-risk substance with action flag
\* or warn, whatever flag/warn substances and major interactions match after
\* it; with no such substance they are flag and the reason of the first
\* matching major interaction; with neither, the verdict was never escalated
\* (pass, or note at the end) and there is no reason: an interaction of
\* another severity changes neither.
C22_OnlyTheFirstEscalationCounts ==
    k_verdict # "reject" =>
        /\ IF MatchedFlagOrWarn # {}
           THEN LET first == TestedRule(k_evaluated[Earliest(MatchedFlagOrWarn)])
                IN  /\ k_verdict = first.action
                    /\ k_reason = <<first.reason>>
           ELSE IF MatchedMajor # {}
           THEN LET first == TestedRule(k_evaluated[Earliest(MatchedMajor)])
                IN  /\ k_verdict = "flag"
                    /\ k_reason = <<"Major drug interaction with ",
                                    first.interacts_with>>
           ELSE /\ k_verdict \in {"pass", "note"}
                /\ k_reason = <<>>
        /\ k_pc = "done" =>
               /\ k_result.verdict = k_verdict
               /\ k_result.reason = k_reason

\* C22 witness: a warn substance matched first, a flag substance and a major
\* interaction matched after it, and the gate has returned warn.
C22_Witness ==
    /\ k_pc = "done"
    /\ k_result.verdict = "warn"
    /\ MatchedMajor # {}
    /\ \E k \in MatchedFlagOrWarn :
           /\ k > Earliest(MatchedFlagOrWarn)
           /\ TestedRule(k_evaluated[k]).action = "flag"

\* the test the scan makes in this step, if it makes one
TestsNow == Len(k_evaluated') = Len(k_evaluated) + 1
TestNow == k_evaluated'[Len(k_evaluated')]

\* the signal the gate words for a regulatory warning
WarningSignal(rule) == <<"Regulatory warning (", rule.agency, "): ", rule.warning>>

\* a finished scan in which regulatory warnings matched and nothing else did,
\* apart from interactions of a severity other than major
OnlyWarningsMatched ==
    /\ MatchedTests("regulatory") # {}
    /\ MatchedTests("high_risk") = {}
    /\ MatchedMajor = {}

\* C23: a step of the scan on a matching regulatory warning whose action is
\* not reject (flag, or no action at all) appends the warning's signal and
\* leaves the running verdict and reason as they were; and when the gate
\* returns for a product that matched only such warnings (no high-risk
\* substance, no major interaction), the verdict is note.
C23_NonRejectWarningOnlySignals ==
    [][/\ (/\ k_pc = "regulatory"
           /\ TestsNow
           /\ TestNow.matched
           /\ k_regulatory[TestNow.index].value.action # "reject") =>
              /\ k_verdict' = k_verdict
              /\ k_reason' = k_reason
              /\ k_signals' =
                     Append(k_signals, WarningSignal(k_regulatory[TestNow.index].value))
       /\ (/\ k_pc = "final"
           /\ k_pc' = "done"
           /\ OnlyWarningsMatched
           /\ \A k \in MatchedTests("regulatory") :
                  TestedRule(k_evaluated[k]).action # "reject") =>
              k_result'.verdict = "note"]_vars

\* C23 witness: a warning without an action and a warning with action flag
\* have matched, nothing else has, and the gate has returned note.
C23_Witness ==
    /\ k_pc = "done"
    /\ k_result.verdict = "note"
    /\ OnlyWarningsMatched
    /\ \E j, k \in MatchedTests("regulatory") :
           /\ TestedRule(k_evaluated[j]).action = NoAction
           /\ TestedRule(k_evaluated[k]).action = "flag"

\* C29: the verdict of a result of the K gate is pass exactly when the result
\* has no safety signal.
C29_PassIffNoSignal ==
    k_pc = "done" => (k_result.verdict = "pass" <=> k_result.safety_signals = <<>>)

\* C29 witness: only an interaction of moderate severity has matched, which
\* escalates nothing by itself, and the gate has returned its signal with a
\* verdict other than pass.
C29_Witness ==
    /\ k_pc = "done"
    /\ MatchedTests("high_risk") = {}
    /\ MatchedTests("regulatory") = {}
    /\ MatchedMajor = {}
    /\ MatchedTests("interactions") # {}
    /\ Len(k_result.safety_signals) = Cardinality(MatchedTests("interactions"))
    /\ k_result.verdict = "note"

\* the rules of a configured list that the table built from it holds
Loaded(items, table) ==
    {i \in 1..Len(items) : \E j \in 1..Len(table) : table[j].value = items[i]}

\* two entries of the high-risk list with one name that the product contains,
\* one of them with action reject and the other with another action
DuplicateWithReject ==
    \E i, j \in 1..Len(k_config.high_risk_substances) :
        LET a == k_config.high_risk_substances[i]
            b == k_config.high_risk_substances[j]
        IN  /\ i # j
            /\ a.name = b.name
            /\ a.action = "reject"
            /\ b.action # "reject"
            /\ Contains(Normalize(entry.product), a.name)

\* C30: loading the configured lists into the lookup tables loses no rule:
\* every entry of the high-risk list and of the regulatory list is in the
\* table the scan walks, so of two entries with one name, one with action
\* reject and one with another action, in either order, the reject entry
\* still rejects a product that contains the name.
C30_LoadingLosesNoRule ==
    /\ k_pc \notin {"idle", "init"} =>
           /\ Loaded(k_config.high_risk_substances, k_high_risk) =
                  DOMAIN k_config.high_risk_substances
           /\ Loaded(k_config.regulatory_warnings, k_regulatory) =
                  DOMAIN k_config.regulatory_warnings
    /\ (k_pc = "done" /\ DuplicateWithReject) => k_result.verdict = "reject"

-----------------------------------------------------------------------------
(* Claims on the outcome of one extraction, checked under SpecExtractor *)

\* a payload with the structure an extraction must have: the four top-level
\* keys, the measure name, the effect with its interval, both sample sizes
HasRequiredStructure(data) ==
    /\ {"outcome_context", "effect", "clinical_context", "sample_sizes"} \subseteq data.top
    /\ "measure_name" \in data.outcome_context
    /\ {"effect_point", "ci_low", "ci_high"} \subseteq data.effect
    /\ {"n_treatment", "n_control"} \subseteq data.sample_sizes

HasOutcome == x_result # NoResult
SucceededCalls == {k \in Calls : x_log[k].ok}

C26_StopsAtFirstSuccess ==
    /\ \A k \in SucceededCalls : k = Len(x_log) /\ x_pc = "done"
    /\ x_pc = "done" =>
           /\ HasOutcome
           /\ x_log # <<>> => x_log[Len(x_log)].type = "call"
           /\ IF x_result.success
              THEN /\ SucceededCalls = {Len(x_log)}
                   /\ Cardinality(Calls) = x_log[Len(x_log)].attempt + 1
              ELSE /\ SucceededCalls = {}
                   /\ Cardinality(Calls) = x_max_retries
           /\ x_max_retries <= 0 =>
                  /\ x_log = <<>>
                  /\ ~x_result.success
                  /\ x_result.error = <<"Max retries exceeded">>

\* C26 witness: with three retries the second attempt succeeded, and the
\* call has returned after two model calls and one sleep.
C26_Witness ==
    /\ x_pc = "done"
    /\ x_max_retries = 3
    /\ x_result.success
    /\ Cardinality(Calls) = 2
    /\ Len(x_log) = 3

\* C27: every outcome, successful or failed, reports the model name and the
\* temperature of the extractor that produced it.
C27_OutcomeReportsModelAndTemperature ==
    HasOutcome =>
        /\ x_result.model = x_model_name
        /\ x_result.temperature = x_temperature

-----------------------------------------------------------------------------
(* Claims on the totality of the validator, checked under SpecValidator *)

\* C25: for every record that has the twelve required fields, none of them
\* null, whatever the types of their values, validate_record returns a pair
\* (is_valid, errors) and raises nothing; a malformed value, such as a doi
\* that is a number, is reported in errors.
C25_ValidateRecordIsTotal ==
    (v_pc = "done" /\ MissingFields(v_record) = {}) =>
        /\ ~v_result.raised
        /\ v_record["doi"].kind # "str" =>
               (~v_result.is_valid /\ v_result.errors # <<>>)

-----------------------------------------------------------------------------
(* Claims on the range of the relevance score, checked under SpecMatcher *)

\* 0.1 and 0.9 in the unit of the scores
LowestScore == ScoreUnit \div 10
HighestScore == (9 * ScoreUnit) \div 10

\* C28: every relevance_score lies in [0.1, 0.9]; with a threshold above 0.9
\* no candidate is matched, and with a threshold of at most 0.1 every
\* candidate is matched.
C28_ScoreBetweenTenthAndNineTenths ==
    \A i \in 1..Len(m_results) :
        LET r == m_results[i].result
        IN  /\ LowestScore <= r.relevance_score
            /\ r.relevance_score <= HighestScore
            /\ m_threshold > HighestScore => ~r.matched
            /\ m_threshold <= LowestScore => r.matched

\* C28 witness: at the threshold 0.95 a candidate with every keyword of the
\* product, of the outcome and of the design list has scored 0.9 and a
\* candidate with none of them 0.1, and neither is matched.
C28_Witness ==
    /\ m_threshold > HighestScore
    /\ \E i, j \in 1..Len(m_results) :
           /\ m_results[i].result.relevance_score = HighestScore
           /\ m_results[j].result.relevance_score = LowestScore
           /\ ~m_results[i].result.matched
           /\ ~m_results[j].result.matched

=============================================================================
